---------------------------- MODULE CommandLine -----------------------------
(***************************************************************************)
(* Terminals on one machine that share ~/.paper-guard: each runs a list of *)
(* paper-guard commands (paper-guard-cli main.rs) while the user edits and *)
(* deletes files under them.  setup and `prompts init' export default      *)
(* files where none exist, `config edit' opens an editor, review loads the *)
(* configuration, then reads each enabled reviewer's prompt file or talks  *)
(* to a server, and discover browses the network (ServiceDiscovery).       *)
(* Every file operation is a step of its own: nothing locks the files.     *)
(***************************************************************************)
EXTENDS ServiceDiscovery

CONSTANTS Terminals,
          PROMPT_ROLES,  \* the reviewers, in the order their prompts are resolved
          Plans,         \* what the terminals may be told to do: sets of
                         \* functions from terminals to sequences of commands
          Mine,          \* what the user's own configuration says
          MAX_EDITS      \* files the user changes outside an editor

Roles == Range(PROMPT_ROLES)
Files == Roles \cup {"config"}

(* "torn" is a file truncated but never written, "broken" one that cannot  *)
(* be read or parsed, "dangling" a link to nothing and "outside" a link to *)
(* a file that is not in the prompt directory.                             *)
Contents == {"absent", "torn", "default", "mine", "broken", "dangling", "outside"}

(* Without a configuration every reviewer is enabled, and neither a server *)
(* nor the network is asked.                                               *)
ReviewersByDefault == Roles
ServerByDefault == FALSE
DiscoveryByDefault == FALSE

Default == [roles |-> ReviewersByDefault, server |-> ServerByDefault, discovery |-> DiscoveryByDefault]

(* "prompts" is `prompts init`, and typo a flag that is misspelt.           *)
Commands == [do : {"setup", "prompts", "edit", "review", "discover"},
             typo : BOOLEAN, server : BOOLEAN, force : BOOLEAN]

ASSUME CommandLineAssumption ==
    /\ PROMPT_ROLES \in Seq(Roles) /\ PROMPT_ROLES # << >> /\ "config" \notin Roles
    /\ Plans \subseteq [Terminals -> Seq(Commands)]
    /\ DOMAIN Mine = DOMAIN Default /\ Mine.roles \subseteq Roles
    /\ MAX_EDITS \in Nat

VARIABLES disk,       \* contents of each file
          edits,      \* changes the user has made
          todo,       \* commands left, the first one running unless idle
          step, at,   \* where each terminal is in it
          cfg,        \* the configuration it loaded
          seen,       \* contents each file has had since it began (history)
          sent,       \* role and text of the prompts it resolved
          usage,      \* role, source and text as noted beside them
          recorded    \* the prompt usage in the run record

terminalVars == <<todo, step, at, cfg, sent, usage, recorded>>
commandVars == <<disk, edits, seen, terminalVars, discoveryVars>>

Command(t) == Head(todo[t])

(* The files a command exports, in order.                                  *)
Exports(t) ==
    CASE Command(t).do = "setup" -> <<"config">> \o PROMPT_ROLES
      [] Command(t).do = "prompts" -> PROMPT_ROLES
      [] OTHER -> <<"config">>

CommandInit ==
    /\ DiscoveryInit
    /\ disk \in {[f \in Files |-> c] : c \in {"absent", "mine"}} /\ edits = 0
    /\ todo \in Plans
    /\ step = [t \in Terminals |-> "idle"] /\ at = [t \in Terminals |-> 1]
    /\ cfg = [t \in Terminals |-> Default]
    /\ seen = [t \in Terminals |-> [f \in Files |-> {}]]
    /\ sent = [t \in Terminals |-> << >>] /\ usage = sent /\ recorded = sent

-----------------------------------------------------------------------------
Put(f, c) ==
    /\ disk' = [disk EXCEPT ![f] = c]
    /\ seen' = [t \in Terminals |-> [seen[t] EXCEPT ![f] = @ \cup {c}]]

NoFileWritten == UNCHANGED <<disk, seen, edits>>

Goto(t, s, n) ==
    /\ step' = [step EXCEPT ![t] = s] /\ at' = [at EXCEPT ![t] = n]

(* The command ends; what it resolved and loaded is gone with its process. *)
Exit(t) ==
    /\ Goto(t, "idle", 1)
    /\ todo' = [todo EXCEPT ![t] = Tail(@)]
    /\ cfg' = [cfg EXCEPT ![t] = Default]
    /\ sent' = [sent EXCEPT ![t] = << >>] /\ usage' = [usage EXCEPT ![t] = << >>]

Begin(t) ==
    /\ step[t] = "idle" /\ todo[t] # << >>
    /\ Goto(t, CASE Command(t).do = "setup" -> "check"
                 [] Command(t).do = "edit" -> "find"
                 [] OTHER -> "load", 1)
    /\ seen' = [seen EXCEPT ![t] = [f \in Files |-> {disk[f]}]]
    /\ recorded' = [recorded EXCEPT ![t] = << >>]
    /\ UNCHANGED <<disk, edits, todo, cfg, sent, usage, discoveryVars>>

(* A configuration that is absent, or whose path is mistyped, is the       *)
(* default one, and so is an empty one; one that does not parse is an      *)
(* error.                                                                  *)
LoadConfig(t) ==
    LET path == IF Command(t).typo THEN "absent" ELSE disk["config"]
        loaded == IF path = "mine" THEN Mine ELSE Default
    IN /\ step[t] = "load" /\ UNCHANGED recorded /\ NoFileWritten
       /\ IF path = "broken" THEN Exit(t) /\ UNCHANGED discoveryVars
          ELSE /\ cfg' = [cfg EXCEPT ![t] = loaded]
               /\ UNCHANGED <<todo, sent, usage, discoveryVars>>
               /\ Goto(t, CASE Command(t).do = "prompts" -> "check"
                            [] Command(t).do = "discover" -> "discover"
                            [] OTHER -> "mode", 1)

-----------------------------------------------------------------------------
(* review: --server, then [server] url, then locally.                      *)
OnServer(t) == Command(t).server \/ cfg[t].server

ResolveMode(t) ==
    /\ step[t] = "mode"
    /\ Goto(t, IF OnServer(t) THEN "remote" ELSE "inspect", 1)
    /\ UNCHANGED <<todo, cfg, sent, usage, recorded, discoveryVars>> /\ NoFileWritten

Replies == {"ok", "Connection", "Timeout", "Auth", "ReviewFailed", "Http", "InvalidResponse"}

(* run_remote_review: the upload, the status, the findings.  No call is    *)
(* repeated; whether the service ran the review before an upload failed    *)
(* is not known here.                                                      *)
RemoteCall(t) ==
    /\ step[t] = "remote" /\ UNCHANGED <<recorded, discoveryVars>> /\ NoFileWritten
    /\ \E reply \in Replies :
          IF reply = "ok" /\ at[t] < 3
          THEN Goto(t, "remote", at[t] + 1) /\ UNCHANGED <<todo, cfg, sent, usage>>
          ELSE Exit(t)

Role(t) == PROMPT_ROLES[at[t]]

Resolve(t, source, text) ==
    /\ sent' = [sent EXCEPT ![t] = Append(@, [role |-> Role(t), text |-> text])]
    /\ usage' = [usage EXCEPT ![t] = Append(@, [role |-> Role(t), source |-> source, text |-> text])]
    /\ Goto(t, "inspect", at[t] + 1)
    /\ UNCHANGED <<todo, cfg, recorded, discoveryVars>> /\ NoFileWritten

(* A disabled reviewer's prompt is not looked at; without a file there is  *)
(* the embedded one, whose text is what an export writes.                  *)
InspectPrompt(t) ==
    /\ step[t] = "inspect" /\ at[t] <= Len(PROMPT_ROLES)
    /\ IF Role(t) \in cfg[t].roles /\ disk[Role(t)] = "absent" THEN Resolve(t, "embedded-default", "default")
       ELSE /\ UNCHANGED <<todo, cfg, sent, usage, recorded, discoveryVars>> /\ NoFileWritten
            /\ IF Role(t) \in cfg[t].roles THEN Goto(t, "resolve", at[t])
               ELSE Goto(t, "inspect", at[t] + 1)

(* canonicalize: the file must still be there, and in the directory.       *)
Inside(c) == c \in {"torn", "default", "mine", "broken"}

ResolvePath(t) ==
    /\ step[t] = "resolve" /\ NoFileWritten
    /\ IF Inside(disk[Role(t)])
       THEN Goto(t, "read", at[t]) /\ UNCHANGED <<todo, cfg, sent, usage, recorded, discoveryVars>>
       ELSE Exit(t) /\ UNCHANGED <<recorded, discoveryVars>>

(* The file is opened by its name again, so what is read is what that name *)
(* leads to by now.                                                        *)
Readable(c) == c \in {"torn", "default", "mine", "outside"}

(* Mutant: a file that cannot be read is as good as none.                  *)
ReadPromptLenient(t) ==
    /\ step[t] = "read"
    /\ IF Readable(disk[Role(t)]) THEN Resolve(t, "external", disk[Role(t)])
       ELSE Resolve(t, "embedded-default", "default")

(* Any other file ends the run, also one deleted since it was resolved.    *)
ReadPrompt(t) ==
    /\ step[t] = "read"
    /\ IF Readable(disk[Role(t)]) THEN Resolve(t, "external", disk[Role(t)])
       ELSE Exit(t) /\ UNCHANGED <<recorded, discoveryVars>> /\ NoFileWritten

(* The reviewers run, and result n is recorded with usage n.               *)
FinishReview(t) ==
    /\ step[t] = "inspect" /\ at[t] > Len(PROMPT_ROLES)
    /\ recorded' = [recorded EXCEPT ![t] =
          [n \in DOMAIN sent[t] |-> [agent |-> sent[t][n].role, usage |-> usage[t][n], sent |-> sent[t][n].text]]]
    /\ Exit(t) /\ UNCHANGED discoveryVars /\ NoFileWritten

-----------------------------------------------------------------------------
(* Export of default files; edit creates its file in the same way.         *)
File(t) == Exports(t)[at[t]]

Exists(f) == disk[f] \notin {"absent", "dangling"}

Exported(t) ==
    IF at[t] < Len(Exports(t))
    THEN Goto(t, "check", at[t] + 1) /\ UNCHANGED <<todo, cfg, sent, usage>>
    ELSE IF Command(t).do = "edit"
         THEN Goto(t, "editor", 1) /\ UNCHANGED <<todo, cfg, sent, usage>>
         ELSE Exit(t)

(* resolve_editor, before anything is created: $VISUAL or $EDITOR if set,  *)
(* else the first of the platform's editors there is on the path; there    *)
(* may be none.                                                            *)
FindEditor(t) ==
    /\ step[t] = "find" /\ UNCHANGED <<recorded, discoveryVars>> /\ NoFileWritten
    /\ \/ Goto(t, "check", 1) /\ UNCHANGED <<todo, cfg, sent, usage>>
       \/ Exit(t)

(* Mutant: the file is written whatever is there.                          *)
CheckBlind(t) ==
    /\ step[t] = "check" /\ Goto(t, "create", at[t])
    /\ UNCHANGED <<todo, cfg, sent, usage, recorded, discoveryVars>> /\ NoFileWritten

Check(t) ==
    /\ step[t] = "check" /\ UNCHANGED <<recorded, discoveryVars>> /\ NoFileWritten
    /\ IF Exists(File(t)) THEN Exported(t)
       ELSE Goto(t, "create", at[t]) /\ UNCHANGED <<todo, cfg, sent, usage>>

(* fs::write: the file is created or truncated, whatever is there by now,  *)
(* or the open fails; a link is followed.                                  *)
CreateFile(t) ==
    /\ step[t] = "create" /\ UNCHANGED <<edits, recorded, discoveryVars>>
    /\ \/ /\ Put(File(t), IF disk[File(t)] \in {"dangling", "outside"} THEN "outside" ELSE "torn")
          /\ Goto(t, "write", at[t]) /\ UNCHANGED <<todo, cfg, sent, usage>>
       \/ Exit(t) /\ UNCHANGED <<disk, seen>>

(* ... and written: what has been saved into it meanwhile is overwritten,  *)
(* unless the file was replaced or removed.                                *)
WriteFile(t) ==
    /\ step[t] = "write" /\ UNCHANGED <<edits, recorded, discoveryVars>>
    /\ \/ disk[File(t)] \in {"torn", "default", "mine", "broken"} /\ Put(File(t), "default")
       \/ disk[File(t)] # "torn" /\ UNCHANGED <<disk, seen>>
    /\ Exported(t)

(* The command is killed or fails for a reason of its own (its write, a    *)
(* source that does not parse): what is on disk stays.                     *)
Killed(t) ==
    /\ step[t] \notin {"idle", "browsing"}
    /\ Exit(t) /\ UNCHANGED <<recorded, discoveryVars>> /\ NoFileWritten

(* The user saves the configuration, or nothing, and closes the editor.    *)
Edit(t) ==
    /\ step[t] = "editor" /\ UNCHANGED <<edits, recorded, discoveryVars>>
    /\ Exit(t)
    /\ \/ UNCHANGED <<disk, seen>>
       \/ \E c \in {"mine", "broken"} : Put("config", c)

-----------------------------------------------------------------------------
(* discover: nothing is sent to the network unless the configuration or    *)
(* --force allows it.                                                      *)
Discover(t) ==
    /\ step[t] = "discover" /\ UNCHANGED recorded /\ NoFileWritten
    /\ IF Command(t).force \/ cfg[t].discovery
       THEN Browse /\ Goto(t, "browsing", 1) /\ UNCHANGED <<todo, cfg, sent, usage>>
       ELSE Exit(t) /\ UNCHANGED discoveryVars

Discovered(t) ==
    /\ step[t] = "browsing" /\ phase \in {"done", "error"}
    /\ Exit(t) /\ UNCHANGED <<recorded, discoveryVars>> /\ NoFileWritten

(* The user writes, links or deletes a file; not while only a browse, that *)
(* reads none, is left.                                                    *)
UserChanges(f) ==
    /\ \E t \in Terminals : todo[t] # << >> /\ Command(t).do # "discover"
    /\ edits < MAX_EDITS /\ edits' = edits + 1
    /\ \E c \in {"mine", "broken", "absent"} \cup (IF f = "config" THEN {} ELSE {"dangling"}) :
          c # disk[f] /\ Put(f, c)
    /\ UNCHANGED <<terminalVars, discoveryVars>>

Own(t) ==
    \/ LoadConfig(t) \/ ResolveMode(t) \/ RemoteCall(t)
    \/ InspectPrompt(t) \/ ResolvePath(t) \/ ReadPrompt(t) \/ FinishReview(t)
    \/ FindEditor(t) \/ Check(t) \/ CreateFile(t) \/ WriteFile(t)
    \/ Discover(t) \/ Discovered(t)

Listening == Discovering /\ UNCHANGED <<disk, edits, seen, terminalVars>>

CommandNext ==
    \/ \E t \in Terminals : Begin(t) \/ Own(t) \/ Killed(t) \/ Edit(t)
    \/ \E f \in Files : UserChanges(f)
    \/ Listening

(* The processes run and the clock of a browse advances; a user may leave  *)
(* the editor open and never type the next command.                        *)
CommandFairness ==
    /\ \A t \in Terminals : WF_commandVars(Own(t))
    /\ WF_commandVars((Elapse \/ CloseWindow \/ Verify \/ Select) /\ UNCHANGED <<disk, edits, seen, terminalVars>>)

CommandSpec == CommandInit /\ [][CommandNext]_commandVars /\ CommandFairness

-----------------------------------------------------------------------------
(* setup, `prompts init' and `config edit' never change a file that has    *)
(* existed since they began (setup.rs: "existing user files are never      *)
(* overwritten"), whatever other commands and the user do meanwhile; only  *)
(* the editor does.                                                        *)
EditsKept ==
    [][\A t \in Terminals : (step'[t] # step[t] \/ at'[t] # at[t]) /\ step[t] \notin {"idle", "editor"} =>
          \A f \in Files : seen[t][f] \cap {"absent", "dangling"} = {} => disk'[f] = disk[f]]_commandVars

(* ix are the places of the enabled reviewers in the list of all of them.  *)
Enabled(roles, ix) ==
    /\ \A m, n \in DOMAIN ix : m < n => ix[m] < ix[n]
    /\ \A k \in 1..Len(PROMPT_ROLES) : PROMPT_ROLES[k] \in roles <=> \E n \in DOMAIN ix : ix[n] = k

(* The run record of a review names the prompt of every enabled reviewer,  *)
(* in order, and what was sent to the model: the text its name led to at   *)
(* some time during the review, or the embedded one only if there was no   *)
(* file at some time; never in place of one that could not be read.  A     *)
(* review that was for a server is never run and recorded here instead     *)
(* ("We never switch modes implicitly", main.rs).                          *)
PromptsAuditable ==
    [][\A t \in Terminals : recorded'[t] # recorded[t] /\ recorded'[t] # << >> =>
          /\ ~OnServer(t)
          /\ \E ix \in [1..Len(recorded'[t]) -> 1..Len(PROMPT_ROLES)] :
                /\ Enabled(cfg[t].roles, ix)
                /\ \A n \in DOMAIN ix : recorded'[t][n].agent = PROMPT_ROLES[ix[n]]
          /\ \A n \in DOMAIN recorded'[t] :
                LET u == recorded'[t][n].usage
                    had == seen[t][u.role]
                IN /\ u.role = recorded'[t][n].agent /\ u.text = recorded'[t][n].sent
                   /\ IF u.source = "external" THEN u.text \in had ELSE "absent" \in had]_commandVars

(* Every command ends, except in an editor the user leaves open.           *)
CommandsEnd ==
    \A t \in Terminals : step[t] \notin {"idle", "editor"} ~> step[t] \in {"idle", "editor"}
=============================================================================
