-------------------------- MODULE CommandLineProofs --------------------------
(***************************************************************************)
(* Proofs about CommandLine and its ServiceDiscovery, for any number of    *)
(* terminals, any commands and any services: what discovery takes, that no *)
(* command overwrites a file, and that the record says what was sent.      *)
(*                                                                         *)
(* The argument: the discovery lists each host it heard of once, and the   *)
(* verdicts go along that list (DiscoveryInv).  A terminal about to create *)
(* a file has seen it absent; one in the middle of its reviewers has       *)
(* resolved each enabled one before that from a text its file had          *)
(* (Looked, Noted and Prompted of CommandInv).  What other terminals and   *)
(* the user do only adds to what has been seen.                            *)
(***************************************************************************)
EXTENDS CommandLine, FiniteSetTheorems, SequenceTheorems, TLAPS

-----------------------------------------------------------------------------
(* What the service discovery has found so far.                            *)
DiscoveryInv ==
    /\ phase \in {"off", "browse", "verify", "done", "error"}
    /\ found \in Seq(Services)
    /\ outcomes \in Seq({"Verified", "IncompatibleVersion", "Rejected"})
    /\ phase \in {"off", "browse"} => outcomes = << >>
    /\ phase = "off" => found = << >> /\ heard = {}
    /\ Len(outcomes) <= Len(found)
    /\ phase = "done" => Len(outcomes) = Len(found)
    /\ AllListed
    /\ \A n \in 1..Len(outcomes) : outcomes[n] = "Verified" =>
          found[n] \in PaperGuards /\ ~Incompatible(found[n])
    /\ phase = "done" => NoGuess

-----------------------------------------------------------------------------
LEMMA Longer ==
    ASSUME NEW S, NEW s \in Seq(S), NEW x \in S
    PROVE  /\ Append(s, x) \in Seq(S) /\ Len(Append(s, x)) = Len(s) + 1 /\ Len(s) \in Nat
           /\ \A n \in 1..Len(s) : Append(s, x)[n] = s[n] /\ s[n] \in S
           /\ Append(s, x)[Len(s) + 1] = x
  OBVIOUS

LEMMA ResolvedStep ==
    ASSUME DiscoveryInv, NEW s \in Services, Resolved(s)
    PROVE  DiscoveryInv'
  <1>1. /\ phase = "browse" /\ phase' = phase /\ heard' = heard \cup {s} /\ outcomes' = outcomes
        /\ outcomes = << >> /\ answer' = answer
        /\ found' = IF s \in Malformed \/ Known(s) THEN found ELSE Append(found, s)
    BY DEF Resolved, DiscoveryInv
  <1>2. found \in Seq(Services) /\ AllListed
    BY DEF DiscoveryInv
  <1>3. CASE s \in Malformed \/ Known(s)
    <2>1. found' = found
      BY <1>1, <1>3
    <2>2. AllListed'
      BY <1>1, <1>2, <1>3, <2>1, SMTT(40) DEF AllListed, Known
    <2> QED
      BY <1>1, <1>2, <2>1, <2>2 DEF DiscoveryInv
  <1>4. CASE ~(s \in Malformed \/ Known(s))
    <2> DEFINE more == Append(found, s)
               N == Len(found)
    <2>1. found' = more /\ more \in Seq(Services) /\ Len(more) = N + 1 /\ N \in Nat
          /\ (\A n \in 1..N : more[n] = found[n] /\ found[n] \in Services) /\ more[N + 1] = s
      BY <1>1, <1>2, <1>4, Longer
    <2> HIDE DEF more, N
    <2>2. \A n \in 1..N + 1 : n \in 1..N \/ n = N + 1
      BY <2>1
    <2>3. \A n \in 1..N : found[n] # s
      BY <1>4 DEF Known, N
    <2>4. AllListed'
      <3>1. \A x \in heard' \ Malformed : \E n \in 1..Len(found') :
               <<NameOf[found'[n]], HostOf[found'[n]]>> = <<NameOf[x], HostOf[x]>>
        <4> SUFFICES ASSUME NEW x \in heard' \ Malformed
                     PROVE  \E n \in 1..N + 1 :
                               <<NameOf[more[n]], HostOf[more[n]]>> = <<NameOf[x], HostOf[x]>>
          BY <2>1
        <4>1. CASE x = s
          <5>1. N + 1 \in 1..N + 1
            BY <2>1
          <5> QED
            BY <2>1, <4>1, <5>1
        <4>2. CASE x # s
          <5>1. PICK n \in 1..N : <<NameOf[found[n]], HostOf[found[n]]>> = <<NameOf[x], HostOf[x]>>
            BY <1>1, <1>2, <4>2 DEF AllListed, N
          <5>2. n \in 1..N + 1 /\ more[n] = found[n]
            BY <2>1, <5>1
          <5> QED
            BY <5>1, <5>2
        <4> QED
          BY <4>1, <4>2
      <3>2. \A j, k \in 1..N + 1 : more[j] = more[k] => j = k
        BY <1>2, <2>1, <2>2, <2>3 DEF AllListed, N
      <3>3. \A n \in 1..N + 1 : more[n] \in heard' \ Malformed
        BY <1>1, <1>2, <1>4, <2>1, <2>2 DEF AllListed, N
      <3> QED
        BY <2>1, <3>1, <3>2, <3>3 DEF AllListed
    <2> QED
      BY <1>1, <2>1, <2>4 DEF DiscoveryInv
  <1> QED
    BY <1>3, <1>4

LEMMA VerifyStep ==
    ASSUME DiscoveryInv, Verify
    PROVE  DiscoveryInv'
  <1>1. /\ phase = "verify" /\ UNCHANGED <<phase, left, heard, found, answer>>
        /\ Len(outcomes) < Len(found)
    BY DEF Verify
  <1>2. PICK answers \in BOOLEAN : outcomes' = Append(outcomes, Classify(found[Len(outcomes) + 1], answers))
    BY DEF Verify
  <1> DEFINE c == Classify(found[Len(outcomes) + 1], answers)
             N == Len(outcomes)
  <1>3. c \in {"Verified", "IncompatibleVersion", "Rejected"}
    BY DEF Classify
  <1>4. c = "Verified" => found[N + 1] \in PaperGuards /\ ~Incompatible(found[N + 1])
    BY DEF Classify
  <1>5. /\ outcomes \in Seq({"Verified", "IncompatibleVersion", "Rejected"}) /\ found \in Seq(Services)
        /\ \A n \in 1..N : outcomes[n] = "Verified" => found[n] \in PaperGuards /\ ~Incompatible(found[n])
    BY DEF DiscoveryInv
  <1> HIDE DEF c
  <1>6. /\ outcomes' \in Seq({"Verified", "IncompatibleVersion", "Rejected"}) /\ Len(outcomes') = N + 1
        /\ N \in Nat /\ (\A n \in 1..N : outcomes'[n] = outcomes[n]) /\ outcomes'[N + 1] = c
    BY <1>2, <1>3, <1>5, Longer DEF c
  <1> HIDE DEF N
  <1>7. \A n \in 1..N + 1 : outcomes'[n] = "Verified" => found[n] \in PaperGuards /\ ~Incompatible(found[n])
    <2>1. \A n \in 1..N + 1 : n \in 1..N \/ n = N + 1
      BY <1>6
    <2> QED
      BY <1>4, <1>5, <1>6, <2>1
  <1>8. Len(found) \in Nat /\ N + 1 <= Len(found)
    BY <1>1, <1>5, <1>6 DEF N
  <1>9. AllListed'
    BY <1>1 DEF DiscoveryInv, AllListed
  <1> QED
    BY <1>1, <1>6, <1>7, <1>8, <1>9 DEF DiscoveryInv, Incompatible

(* What is selected is the one service that fits, if there is just one.    *)
LEMMA SelectStep ==
    ASSUME DiscoveryInv, Select
    PROVE  DiscoveryInv'
  <1>1. /\ phase = "verify" /\ phase' = "done" /\ UNCHANGED <<left, heard, found, outcomes>>
        /\ Len(outcomes) = Len(found)
    BY DEF Select
  <1>2. PICK preferred \in Preferences : answer' = [preferred |-> preferred, got |-> SelectService(preferred)]
    BY DEF Select
  <1>3. /\ found \in Seq(Services) /\ AllListed
        /\ \A n \in 1..Len(found) : outcomes[n] = "Verified" => found[n] \in PaperGuards /\ ~Incompatible(found[n])
    BY <1>1 DEF DiscoveryInv
  <1> DEFINE wanted == IF preferred = NoPreference THEN Eligible ELSE Matching(preferred)
             proved == {found[n] : n \in Eligible}
             fits == {s \in proved : preferred \in {NoPreference, NameOf[s], HostOf[s]}}
             got == SelectService(preferred)
  <1>4. wanted \subseteq Eligible /\ Eligible \subseteq 1..Len(found)
        /\ \A n \in Eligible : found[n] \in Services /\ outcomes[n] = "Verified"
    BY <1>3 DEF Eligible, Matching
  <1>5. \A m, n \in Eligible : found[m] = found[n] => m = n
    BY <1>3, <1>4 DEF AllListed
  <1>6. fits = {found[n] : n \in wanted}
    BY DEF Matching
  <1> HIDE DEF wanted, proved, fits
  <1>7. IsFiniteSet(wanted)
    <2>1. IsFiniteSet(1..Len(found))
      BY <1>3, FS_Interval
    <2> QED
      BY <1>4, <2>1, FS_Subset
  <1>8. Cardinality(fits) = Cardinality(wanted)
    <2> DEFINE f == [n \in wanted |-> found[n]]
    <2>1. f \in Surjection(wanted, fits)
      BY <1>6 DEF Surjection
    <2>2. f \in Injection(wanted, fits)
      BY <1>4, <1>5, <1>6 DEF Injection, IsInjective
    <2> QED
      BY <1>7, <2>1, <2>2, FS_Surjection
  <1>9. (got \in Services <=> Cardinality(fits) = 1) /\ (got \in Services => fits = {got})
    <2>1. CASE Cardinality(wanted) = 1
      <3>1. PICK m : wanted = {m}
        BY <1>7, <2>1, FS_Singleton
      <3>2. Eligible # {} /\ m \in Eligible
        BY <1>4, <3>1
      <3>3. (CHOOSE n \in wanted : TRUE) = m
        BY <3>1
      <3>4. got = found[m]
        BY <2>1, <3>2, <3>3 DEF SelectService, wanted
      <3>5. fits = {got}
        BY <1>6, <3>1, <3>4
      <3> QED
        BY <1>4, <1>8, <2>1, <3>2, <3>4, <3>5
    <2>2. CASE Cardinality(wanted) # 1
      <3>1. got \in Refusals
        BY <2>2 DEF SelectService, Refusals, wanted
      <3>2. got \notin Services
        BY <3>1, DiscoveryAssumption
      <3> QED
        BY <1>8, <2>2, <3>2
    <2> QED
      BY <2>1, <2>2
  <1>10. \A s \in proved : s \in PaperGuards /\ ~Incompatible(s)
    BY <1>3, <1>4 DEF proved
  <1>11. NoGuess'
    <2>1. Eligible' = Eligible
      BY <1>1 DEF Eligible
    <2>2. answer'.preferred = preferred /\ answer'.got = got /\ found' = found
      BY <1>1, <1>2
    <2> HIDE DEF got
    <2>3. proved' = proved
      BY <2>1, <2>2 DEF proved
    <2> QED
      BY <1>9, <1>10, <2>1, <2>2 DEF NoGuess, fits, proved, Incompatible
  <1>12. AllListed'
    BY <1>1, <1>3 DEF AllListed
  <1> QED
    BY <1>1, <1>11, <1>12 DEF DiscoveryInv, Incompatible

LEMMA InitDiscovery == DiscoveryInit => DiscoveryInv
  BY DEF DiscoveryInit, DiscoveryInv, AllListed

(* The steps that find nothing.                                            *)
LEMMA ClockStep ==
    ASSUME DiscoveryInv, Browse \/ Elapse \/ Disconnect \/ CloseWindow \/ UNCHANGED discoveryVars
    PROVE  DiscoveryInv'
  <1>1. /\ UNCHANGED <<heard, found, outcomes, answer>>
        /\ \/ phase' = phase
           \/ phase = "off" /\ phase' \in {"browse", "error"}
           \/ phase = "browse" /\ phase' \in {"verify", "error"}
    BY DEF Browse, Elapse, Disconnect, CloseWindow, discoveryVars
  <1>2. AllListed' /\ (NoGuess => NoGuess')
    <2>1. AllListed'
      BY <1>1 DEF DiscoveryInv, AllListed
    <2>2. heard' = heard /\ found' = found /\ outcomes' = outcomes /\ answer' = answer
      BY <1>1
    <2>3. Eligible' = Eligible
      BY <2>2 DEF Eligible
    <2> DEFINE proved == {found[n] : n \in Eligible}
               fits == {s \in proved : answer.preferred \in {NoPreference, NameOf[s], HostOf[s]}}
    <2>4. proved' = proved /\ fits' = fits
      BY <2>2, <2>3
    <2>5. NoGuess => NoGuess'
      <3>1. NoGuess <=> /\ \A s \in proved : s \in PaperGuards /\ ~Incompatible(s)
                        /\ answer.got \in Services => fits = {answer.got}
                        /\ answer.preferred # NoPreference /\ Cardinality(fits) = 1 => answer.got \in Services
        BY Zenon DEF NoGuess
      <3>2. NoGuess' <=> /\ \A s \in proved' : s \in PaperGuards /\ ~Incompatible(s)
                         /\ answer'.got \in Services => fits' = {answer'.got}
                         /\ answer'.preferred # NoPreference /\ Cardinality(fits') = 1 => answer'.got \in Services
        BY Zenon DEF NoGuess, Incompatible
      <3> HIDE DEF proved, fits
      <3> QED
        BY <2>2, <2>4, <3>1, <3>2
    <2> QED
      BY <2>1, <2>5
  <1> QED
    BY <1>1, <1>2 DEF DiscoveryInv, Incompatible

LEMMA DiscoveryStep == DiscoveryInv /\ [CommandNext]_commandVars => DiscoveryInv'
  <1> SUFFICES ASSUME DiscoveryInv, [CommandNext]_commandVars PROVE DiscoveryInv'
    OBVIOUS
  <1>1. Discovering \/ Browse \/ UNCHANGED discoveryVars
    <2>1. ASSUME NEW t \in Terminals, Begin(t) \/ Own(t) \/ Killed(t) \/ Edit(t)
          PROVE  Browse \/ UNCHANGED discoveryVars
      <3>1. Begin(t) \/ Killed(t) \/ Edit(t) => UNCHANGED discoveryVars
        BY DEF Begin, Killed, Edit
      <3>2. LoadConfig(t) \/ ResolveMode(t) \/ RemoteCall(t) => UNCHANGED discoveryVars
        BY DEF LoadConfig, ResolveMode, RemoteCall
      <3>3. InspectPrompt(t) \/ ResolvePath(t) \/ ReadPrompt(t) \/ FinishReview(t) => UNCHANGED discoveryVars
        BY DEF InspectPrompt, ResolvePath, ReadPrompt, FinishReview, Resolve
      <3>4. FindEditor(t) \/ Check(t) \/ CreateFile(t) \/ WriteFile(t) => UNCHANGED discoveryVars
        BY DEF FindEditor, Check, CreateFile, WriteFile
      <3>5. Discover(t) \/ Discovered(t) => Browse \/ UNCHANGED discoveryVars
        BY DEF Discover, Discovered
      <3> QED
        BY <2>1, <3>1, <3>2, <3>3, <3>4, <3>5 DEF Own
    <2>2. ASSUME NEW f \in Files, UserChanges(f) PROVE UNCHANGED discoveryVars
      BY <2>2 DEF UserChanges
    <2>3. Listening => Discovering
      BY DEF Listening
    <2>4. UNCHANGED commandVars => UNCHANGED discoveryVars
      BY DEF commandVars
    <2> QED
      BY <2>1, <2>2, <2>3, <2>4 DEF CommandNext
  <1> QED
    BY <1>1, ResolvedStep, VerifyStep, SelectStep, ClockStep DEF Discovering

LEMMA DiscoveryAlways == CommandSpec => []DiscoveryInv
  <1>1. CommandInit => DiscoveryInv
    BY InitDiscovery DEF CommandInit
  <1> QED
    BY <1>1, DiscoveryStep, PTL DEF CommandSpec

(* Whatever services there are and in whatever order, how often and how    *)
(* late they answer: all of them are listed, and what select_service takes *)
(* is verified and the only one that fits; and one that alone fits an      *)
(* explicit preference is taken (discover, verify_and_classify,            *)
(* select_service).                                                        *)
THEOREM AlwaysChosenFromAll == CommandSpec => []ChosenFromAll
  <1>1. DiscoveryInv => ChosenFromAll
    BY DEF DiscoveryInv, ChosenFromAll
  <1> QED
    BY <1>1, DiscoveryAlways, PTL

-----------------------------------------------------------------------------
Domains ==
    /\ DOMAIN disk = Files /\ DOMAIN todo = Terminals /\ DOMAIN step = Terminals
    /\ DOMAIN at = Terminals /\ DOMAIN cfg = Terminals /\ DOMAIN recorded = Terminals
    /\ DOMAIN sent = Terminals /\ DOMAIN usage = Terminals
    /\ DOMAIN seen = Terminals /\ \A t \in Terminals : DOMAIN seen[t] = Files

Absent == {"absent", "dangling"}
Exporting == {"check", "create", "write"}
Resolving == {"inspect", "resolve", "read"}
Prompt == [role : Roles, text : Contents]
Usage == [role : Roles, source : {"external", "embedded-default"}, text : Contents]

(* The history of a command has the present contents of each file, and the *)
(* file that it creates was not there when it looked.                      *)
Looked(t) ==
    /\ step[t] # "idle" => \A f \in Files : disk[f] \in seen[t][f]
    /\ step[t] \in Exporting => at[t] \in 1..Len(Exports(t))
    /\ step[t] \in {"create", "write"} => seen[t][File(t)] \cap Absent # {}

(* Of the roles that have been passed the enabled ones are resolved, each  *)
(* from a text its file had.                                               *)
EnabledBefore(k, roles, ix) ==
    /\ \A m, n \in DOMAIN ix : m < n => ix[m] < ix[n]
    /\ \A j \in 1..k - 1 : PROMPT_ROLES[j] \in roles <=> \E n \in DOMAIN ix : ix[n] = j

Noted(t) ==
    /\ sent[t] \in Seq(Prompt) /\ usage[t] \in Seq(Usage) /\ Len(usage[t]) = Len(sent[t])
    /\ step[t] \notin Resolving => sent[t] = << >> /\ usage[t] = << >>
    /\ \A n \in 1..Len(sent[t]) :
          LET u == usage[t][n] IN
          /\ u.role = sent[t][n].role /\ u.text = sent[t][n].text
          /\ IF u.source = "external" THEN u.text \in seen[t][u.role] ELSE "absent" \in seen[t][u.role]

Prompted(t) ==
    step[t] \in Resolving =>
        /\ ~OnServer(t)
        /\ at[t] \in 1..Len(PROMPT_ROLES) + 1
        /\ step[t] \in {"resolve", "read"} => at[t] <= Len(PROMPT_ROLES) /\ Role(t) \in cfg[t].roles
        /\ \E ix \in [1..Len(sent[t]) -> 1..at[t] - 1] :
              /\ EnabledBefore(at[t], cfg[t].roles, ix)
              /\ \A n \in DOMAIN ix : sent[t][n].role = PROMPT_ROLES[ix[n]]

TerminalInv(t) == Looked(t) /\ Noted(t) /\ Prompted(t)

CommandInv ==
    /\ Domains
    /\ \A f \in Files : disk[f] \in Contents
    /\ \A t \in Terminals : TerminalInv(t)

LEMMA ExportsType ==
    ASSUME NEW t
    PROVE  /\ Len(Exports(t)) \in Nat \ {0}
           /\ \A n \in 1..Len(Exports(t)) : Exports(t)[n] \in Files
  <1>1. PROMPT_ROLES \in Seq(Files) /\ "config" \in Files /\ PROMPT_ROLES # << >>
    <2>1. PROMPT_ROLES \in Seq(Roles) /\ PROMPT_ROLES # << >>
      BY CommandLineAssumption
    <2> HIDE DEF Roles
    <2> QED
      BY <2>1 DEF Files
  <1> HIDE DEF Files
  <1>2. Exports(t) = <<"config">> \o PROMPT_ROLES \/ Exports(t) = PROMPT_ROLES \/ Exports(t) = <<"config">>
    BY DEF Exports
  <1>3. <<"config">> \in Seq(Files) /\ Len(<<"config">>) = 1
    BY <1>1
  <1>4. <<"config">> \o PROMPT_ROLES \in Seq(Files) /\ Len(<<"config">> \o PROMPT_ROLES) # 0
    BY <1>1, <1>3
  <1>5. Len(PROMPT_ROLES) # 0
    BY <1>1, EmptySeq
  <1>6. Exports(t) \in Seq(Files) /\ Len(Exports(t)) # 0
    <2>1. Len(<<"config">>) # 0
      BY <1>3
    <2> QED
      BY <1>1, <1>2, <1>3, <1>4, <1>5, <2>1, Zenon
  <1> QED
    BY <1>6

LEMMA RolesOfPrompts ==
    /\ Len(PROMPT_ROLES) \in Nat
    /\ \A n \in 1..Len(PROMPT_ROLES) : PROMPT_ROLES[n] \in Roles /\ PROMPT_ROLES[n] \in Files
  <1>1. PROMPT_ROLES \in Seq(Roles)
    BY CommandLineAssumption
  <1> HIDE DEF Roles
  <1> QED
    BY <1>1 DEF Files

LEMMA InitCommand == CommandInit => CommandInv
  <1> SUFFICES ASSUME CommandInit PROVE CommandInv
    OBVIOUS
  <1>1. PICK c \in {"absent", "mine"} : disk = [f \in Files |-> c]
    BY DEF CommandInit
  <1>2. todo \in [Terminals -> Seq(Commands)]
    BY CommandLineAssumption DEF CommandInit
  <1>3. Domains
    BY <1>1, <1>2 DEF CommandInit, Domains
  <1>4. \A f \in Files : disk[f] \in Contents
    BY <1>1 DEF Contents
  <1>5. ASSUME NEW t \in Terminals PROVE TerminalInv(t)
    <2>1. step[t] = "idle" /\ sent[t] = << >> /\ usage[t] = << >>
      BY DEF CommandInit
    <2>2. << >> \in Seq(Prompt) /\ << >> \in Seq(Usage)
      OBVIOUS
    <2> QED
      BY <2>1, <2>2 DEF TerminalInv, Looked, Noted, Prompted, Exporting, Resolving
  <1> QED
    BY <1>3, <1>4, <1>5 DEF CommandInv

(* A terminal is where it was, and the files change or do not.             *)
Rests(u) ==
    /\ todo'[u] = todo[u] /\ step'[u] = step[u] /\ at'[u] = at[u] /\ cfg'[u] = cfg[u]
    /\ sent'[u] = sent[u] /\ usage'[u] = usage[u]

Follows(u) ==
    /\ \A f \in Files : seen[u][f] \subseteq seen'[u][f]
    /\ step[u] # "idle" => \A f \in Files : disk'[f] \in seen'[u][f]

LEMMA Resting ==
    ASSUME NEW u \in Terminals, TerminalInv(u), Rests(u), step[u] # "idle" => Follows(u)
    PROVE  TerminalInv(u)'
  <1>1. Command(u)' = Command(u) /\ Exports(u)' = Exports(u) /\ OnServer(u)' = OnServer(u)
        /\ Role(u)' = Role(u)
    BY DEF Rests, Command, Exports, OnServer, Role
  <1>2. File(u)' = File(u)
    BY <1>1 DEF File, Rests
  <1>3. Looked(u)'
    <2>1. step[u] \in Exporting => File(u) \in Files
      BY ExportsType DEF File, TerminalInv, Looked
    <2>2. step[u] \in {"create", "write"} => seen'[u][File(u)] \cap Absent # {}
      BY <2>1 DEF TerminalInv, Looked, Follows, Exporting
    <2> QED
      BY <1>1, <1>2, <2>2 DEF TerminalInv, Looked, Rests, Follows
  <1>4. Noted(u)'
    <2>1. CASE step[u] = "idle"
      BY <2>1 DEF TerminalInv, Noted, Rests, Resolving
    <2>2. CASE step[u] # "idle"
      <3>1. \A n \in 1..Len(sent[u]) : usage[u][n].role \in Files
        <4>1. \A n \in 1..Len(sent[u]) : usage[u][n] \in Usage
          BY DEF TerminalInv, Noted
        <4> QED
          BY <4>1 DEF Usage, Files
      <3> QED
        BY <2>2, <3>1 DEF TerminalInv, Noted, Rests, Follows
    <2> QED
      BY <2>1, <2>2
  <1>5. Prompted(u)'
    BY <1>1 DEF TerminalInv, Prompted, Rests
  <1> QED
    BY <1>3, <1>4, <1>5 DEF TerminalInv

-----------------------------------------------------------------------------
(* What the steps of one terminal leave alone.                             *)
LEMMA OnlyOne ==
    ASSUME Domains, NEW t \in Terminals, Begin(t) \/ Own(t) \/ Killed(t) \/ Edit(t)
    PROVE  /\ \A u \in Terminals \ {t} : Rests(u)
           /\ \A u \in Terminals \ {t} : recorded'[u] = recorded[u]
           /\ DOMAIN todo' = Terminals /\ DOMAIN step' = Terminals /\ DOMAIN at' = Terminals
           /\ DOMAIN cfg' = Terminals /\ DOMAIN recorded' = Terminals
           /\ DOMAIN sent' = Terminals /\ DOMAIN usage' = Terminals
  <1> DEFINE Mine0(f, g) == DOMAIN g = DOMAIN f /\ \A u \in DOMAIN f \ {t} : g[u] = f[u]
             Shape == /\ Mine0(todo, todo') /\ Mine0(step, step') /\ Mine0(at, at') /\ Mine0(cfg, cfg')
                      /\ Mine0(sent, sent') /\ Mine0(usage, usage') /\ Mine0(recorded, recorded')
  <1>1. \A f : Mine0(f, f)
    OBVIOUS
  <1>2. \A f, v : Mine0(f, [f EXCEPT ![t] = v])
    OBVIOUS
  <1>3. \A s, n : Goto(t, s, n) => Mine0(step, step') /\ Mine0(at, at')
    BY <1>2, Zenon DEF Goto
  <1>4. Exit(t) => /\ Mine0(todo, todo') /\ Mine0(step, step') /\ Mine0(at, at') /\ Mine0(cfg, cfg')
                   /\ Mine0(sent, sent') /\ Mine0(usage, usage')
    <2>1. Exit(t) => Mine0(step, step') /\ Mine0(at, at')
      BY <1>3, Zenon DEF Exit
    <2>2. Exit(t) => Mine0(cfg, cfg') /\ Mine0(sent, sent') /\ Mine0(usage, usage')
      BY <1>2, Zenon DEF Exit
    <2>3. Exit(t) => todo' = [todo EXCEPT ![t] = Tail(todo[t])]
      BY DEF Exit
    <2> QED
      BY <1>2, <2>1, <2>2, <2>3, Zenon
  <1> HIDE DEF Mine0
  <1>5. Shape
    <2>1. CASE Begin(t)
      <3>1. Mine0(recorded, recorded') /\ UNCHANGED <<todo, cfg, sent, usage>>
        BY <1>2, <2>1, Zenon DEF Begin
      <3>2. Mine0(step, step') /\ Mine0(at, at')
        BY <1>3, <2>1, Zenon DEF Begin
      <3> QED
        BY <1>1, <3>1, <3>2
    <2>2. CASE Exit(t) /\ recorded' = recorded
      BY <1>1, <1>4, <2>2
    <2>3. CASE (\E s, n : Goto(t, s, n)) /\ UNCHANGED <<todo, cfg, sent, usage, recorded>>
      BY <1>1, <1>3, <2>3
    <2>4. CASE LoadConfig(t)
      <3>1. /\ recorded' = recorded
            /\ \/ Exit(t)
               \/ /\ \E v : cfg' = [cfg EXCEPT ![t] = v]
                  /\ UNCHANGED <<todo, sent, usage>>
                  /\ \E s, n : Goto(t, s, n)
        BY <2>4, Zenon DEF LoadConfig
      <3>2. CASE Exit(t)
        BY <2>2, <3>1, <3>2
      <3>3. CASE /\ \E v : cfg' = [cfg EXCEPT ![t] = v]
                 /\ UNCHANGED <<todo, sent, usage>>
                 /\ \E s, n : Goto(t, s, n)
        BY <1>1, <1>2, <1>3, <3>1, <3>3
      <3> QED
        BY <3>1, <3>2, <3>3
    <2>5. CASE \E source, text : Resolve(t, source, text)
      <3>1. PICK source, text : Resolve(t, source, text)
        BY <2>5
      <3>2. /\ UNCHANGED <<todo, cfg, recorded>> /\ \E s, n : Goto(t, s, n)
            /\ \E v : sent' = [sent EXCEPT ![t] = v]
            /\ \E v : usage' = [usage EXCEPT ![t] = v]
        BY <3>1, Zenon DEF Resolve
      <3>3. Mine0(todo, todo') /\ Mine0(cfg, cfg') /\ Mine0(recorded, recorded')
        BY <1>1, <3>2
      <3>4. Mine0(step, step') /\ Mine0(at, at')
        BY <1>3, <3>2, Zenon
      <3>5. PICK v : sent' = [sent EXCEPT ![t] = v]
        BY <3>2
      <3>6. PICK w : usage' = [usage EXCEPT ![t] = w]
        BY <3>2
      <3>7. Mine0(sent, [sent EXCEPT ![t] = v]) /\ Mine0(usage, [usage EXCEPT ![t] = w])
        BY <1>2, Zenon
      <3> QED
        BY <3>3, <3>4, <3>5, <3>6, <3>7
    <2>6. CASE FinishReview(t)
      <3>1. Exit(t) /\ \E v : recorded' = [recorded EXCEPT ![t] = v]
        BY <2>6, Zenon DEF FinishReview
      <3>2. PICK v : recorded' = [recorded EXCEPT ![t] = v]
        BY <3>1
      <3>3. Mine0(recorded, [recorded EXCEPT ![t] = v])
        BY <1>2, Zenon
      <3> QED
        BY <1>4, <3>1, <3>2, <3>3
    <2>7. ResolveMode(t) \/ RemoteCall(t) =>
             \/ Exit(t) /\ recorded' = recorded
             \/ (\E s, n : Goto(t, s, n)) /\ UNCHANGED <<todo, cfg, sent, usage, recorded>>
      BY DEF ResolveMode, RemoteCall
    <2>8. InspectPrompt(t) \/ ResolvePath(t) \/ ReadPrompt(t) =>
             \/ Exit(t) /\ recorded' = recorded
             \/ (\E s, n : Goto(t, s, n)) /\ UNCHANGED <<todo, cfg, sent, usage, recorded>>
             \/ \E source, text : Resolve(t, source, text)
      BY DEF InspectPrompt, ResolvePath, ReadPrompt
    <2>9. FindEditor(t) \/ Check(t) \/ CreateFile(t) \/ WriteFile(t) =>
             \/ Exit(t) /\ recorded' = recorded
             \/ (\E s, n : Goto(t, s, n)) /\ UNCHANGED <<todo, cfg, sent, usage, recorded>>
      BY DEF FindEditor, Check, CreateFile, WriteFile, Exported
    <2>10. Discover(t) \/ Discovered(t) \/ Killed(t) \/ Edit(t) =>
             \/ Exit(t) /\ recorded' = recorded
             \/ (\E s, n : Goto(t, s, n)) /\ UNCHANGED <<todo, cfg, sent, usage, recorded>>
      BY DEF Discover, Discovered, Killed, Edit
    <2> HIDE DEF Shape
    <2> QED
      BY <2>1, <2>2, <2>3, <2>4, <2>5, <2>6, <2>7, <2>8, <2>9, <2>10 DEF Own
  <1> QED
    BY <1>5 DEF Mine0, Rests, Domains

LEMMA FileEffect ==
    ASSUME Domains, NEW u \in Terminals, TerminalInv(u),
           UNCHANGED <<disk, seen>> \/ \E f \in Files : \E c : Put(f, c)
    PROVE  step[u] # "idle" => Follows(u)
  <1>1. CASE UNCHANGED <<disk, seen>>
    BY <1>1 DEF Follows, TerminalInv, Looked
  <1>2. CASE \E f \in Files : \E c : Put(f, c)
    <2>0. PICK f \in Files : \E c : Put(f, c)
      BY <1>2
    <2>1. PICK c : Put(f, c)
      BY <2>0
    <2>2. \A g \in Files : /\ disk'[g] = IF g = f THEN c ELSE disk[g]
                           /\ seen'[u][g] = IF g = f THEN seen[u][g] \cup {c} ELSE seen[u][g]
      BY <2>1 DEF Put, Domains
    <2> HIDE DEF Files
    <2> QED
      BY <2>2 DEF Follows, TerminalInv, Looked
  <1> QED
    BY <1>1, <1>2

LEMMA FilesType ==
    ASSUME Domains, \A f \in Files : disk[f] \in Contents,
           \/ UNCHANGED <<disk, seen>>
           \/ \E f \in Files, c \in Contents : Put(f, c)
    PROVE  /\ DOMAIN disk' = Files /\ DOMAIN seen' = Terminals
           /\ \A t \in Terminals : DOMAIN seen'[t] = Files
           /\ \A f \in Files : disk'[f] \in Contents
  BY DEF Put, Domains

-----------------------------------------------------------------------------
LEMMA Exiting ==
    ASSUME Domains, NEW t \in Terminals, Exit(t)
    PROVE  TerminalInv(t)'
  <1>1. step'[t] = "idle" /\ sent'[t] = << >> /\ usage'[t] = << >>
    BY DEF Exit, Goto, Domains
  <1>2. << >> \in Seq(Prompt) /\ << >> \in Seq(Usage)
    OBVIOUS
  <1> QED
    BY <1>1, <1>2 DEF TerminalInv, Looked, Noted, Prompted, Exporting, Resolving

LEMMA Moving ==
    ASSUME Domains, NEW t \in Terminals, TerminalInv(t), NEW s, NEW n, Goto(t, s, n),
           UNCHANGED <<todo, sent, usage>>, step[t] \notin Resolving, s \notin Resolving,
           Follows(t), \A f \in Files : disk'[f] \in seen'[t][f],
           s \in Exporting => n \in 1..Len(Exports(t)),
           s \in {"create", "write"} => seen'[t][Exports(t)[n]] \cap Absent # {}
    PROVE  TerminalInv(t)'
  <1>1. step'[t] = s /\ at'[t] = n
    BY DEF Goto, Domains
  <1>2. Exports(t)' = Exports(t)
    BY DEF Exports, Command
  <1>3. s \in {"create", "write"} => seen'[t][File(t)'] \cap Absent # {}
    BY <1>1, <1>2 DEF File
  <1>4. Looked(t)'
    BY <1>1, <1>2, <1>3 DEF Looked
  <1>5. Noted(t)'
    <2>1. sent[t] = << >> /\ usage[t] = << >>
      BY DEF TerminalInv, Noted
    <2>2. << >> \in Seq(Prompt) /\ << >> \in Seq(Usage)
      OBVIOUS
    <2> QED
      BY <2>1, <2>2 DEF Noted
  <1>6. Prompted(t)'
    BY <1>1 DEF Prompted
  <1> QED
    BY <1>4, <1>5, <1>6 DEF TerminalInv

(* more adds the k-th role, an enabled one, to the N that ix has of those  *)
(* before it.                                                              *)
Extends(more, ix, N, k, roles) ==
    /\ N \in Nat /\ k \in Nat \ {0} /\ PROMPT_ROLES[k] \in roles
    /\ ix \in [1..N -> 1..k - 1] /\ EnabledBefore(k, roles, ix)
    /\ more \in [1..N + 1 -> 1..k] /\ more[N + 1] = k /\ \A n \in 1..N : more[n] = ix[n]

LEMMA EnabledGrows ==
    ASSUME NEW more, NEW ix, NEW N, NEW k, NEW roles, Extends(more, ix, N, k, roles)
    PROVE  EnabledBefore(k + 1, roles, more)
  <1> USE DEF Extends
  <1>1. \A n \in 1..N : ix[n] \in 1..k - 1
    OBVIOUS
  <1>2. \A n \in 1..N + 1 : n \in 1..N \/ n = N + 1
    OBVIOUS
  <1>3. /\ more[N + 1] = k /\ N + 1 \in 1..N + 1
        /\ \A n \in 1..N : more[n] = ix[n] /\ n \in 1..N + 1
    OBVIOUS
  <1>4. DOMAIN more = 1..N + 1 /\ DOMAIN ix = 1..N
    OBVIOUS
  <1>6. \A m, n \in 1..N + 1 : m < n => more[m] < more[n]
    <2> SUFFICES ASSUME NEW m \in 1..N + 1, NEW n \in 1..N + 1, m < n PROVE more[m] < more[n]
      OBVIOUS
    <2>1. m \in 1..N
      OBVIOUS
    <2>2. CASE n = N + 1
      BY <1>1, <1>3, <2>1, <2>2
    <2>3. CASE n \in 1..N
      BY <1>3, <1>4, <2>1, <2>3 DEF EnabledBefore
    <2> QED
      BY <1>2, <2>2, <2>3
  <1>7. ASSUME NEW j \in 1..k PROVE PROMPT_ROLES[j] \in roles <=> \E n \in 1..N + 1 : more[n] = j
    <2>1. CASE j = k
      BY <1>3, <2>1
    <2>2. CASE j # k
      <3>1. j \in 1..k - 1
        BY <2>2
      <3>2. PROMPT_ROLES[j] \in roles <=> \E n \in 1..N : ix[n] = j
        BY <1>4, <3>1 DEF EnabledBefore
      <3> QED
        BY <1>2, <1>3, <2>2, <3>2
    <2> QED
      BY <2>1, <2>2
  <1>8. 1..(k + 1) - 1 = 1..k
    OBVIOUS
  <1> QED
    BY <1>4, <1>6, <1>7, <1>8 DEF EnabledBefore

LEMMA EnabledPasses ==
    ASSUME NEW N \in Nat, NEW k \in Nat \ {0}, NEW roles, PROMPT_ROLES[k] \notin roles,
           NEW ix \in [1..N -> 1..k - 1], EnabledBefore(k, roles, ix)
    PROVE  ix \in [1..N -> 1..k] /\ EnabledBefore(k + 1, roles, ix)
  <1>1. ix \in [1..N -> 1..k] /\ DOMAIN ix = 1..N
    OBVIOUS
  <1>2. ASSUME NEW j \in 1..k PROVE PROMPT_ROLES[j] \in roles <=> \E n \in 1..N : ix[n] = j
    <2>1. \A n \in 1..N : ix[n] # k
      OBVIOUS
    <2>2. CASE j = k
      BY <2>1, <2>2
    <2>3. CASE j # k
      <3>1. j \in 1..k - 1
        BY <2>3
      <3> QED
        BY <1>1, <3>1 DEF EnabledBefore
    <2> QED
      BY <2>2, <2>3
  <1>3. 1..(k + 1) - 1 = 1..k
    OBVIOUS
  <1> QED
    BY <1>1, <1>2, <1>3 DEF EnabledBefore

LEMMA Passing ==
    ASSUME Domains, NEW t \in Terminals, TerminalInv(t), step[t] = "inspect",
           at[t] <= Len(PROMPT_ROLES), Role(t) \notin cfg[t].roles,
           Goto(t, "inspect", at[t] + 1), UNCHANGED <<todo, cfg, sent, usage, disk, seen>>
    PROVE  TerminalInv(t)'
  <1>1. step'[t] = "inspect" /\ at'[t] = at[t] + 1
    BY DEF Goto, Domains
  <1>2. OnServer(t)' = OnServer(t) /\ cfg'[t] = cfg[t] /\ sent'[t] = sent[t] /\ usage'[t] = usage[t]
    BY DEF OnServer, Command
  <1>3. ~OnServer(t) /\ at[t] \in 1..Len(PROMPT_ROLES) + 1 /\ Len(sent[t]) \in Nat
    BY DEF TerminalInv, Prompted, Noted, Resolving
  <1>4. at[t] + 1 \in 1..Len(PROMPT_ROLES) + 1 /\ (at[t] + 1) - 1 = at[t] /\ at[t] \in Nat \ {0}
    BY <1>3, RolesOfPrompts
  <1>5. PICK ix \in [1..Len(sent[t]) -> 1..at[t] - 1] :
           /\ EnabledBefore(at[t], cfg[t].roles, ix)
           /\ \A n \in DOMAIN ix : sent[t][n].role = PROMPT_ROLES[ix[n]]
    BY DEF TerminalInv, Prompted, Resolving
  <1>6. ix \in [1..Len(sent[t]) -> 1..at[t]] /\ EnabledBefore(at[t] + 1, cfg[t].roles, ix)
    BY <1>3, <1>4, <1>5, EnabledPasses DEF Role
  <1>7. Prompted(t)'
    BY <1>1, <1>2, <1>3, <1>4, <1>5, <1>6 DEF Prompted
  <1>8. Looked(t)' /\ Noted(t)'
    BY <1>1, <1>2 DEF TerminalInv, Looked, Noted, Exporting, Resolving
  <1> QED
    BY <1>7, <1>8 DEF TerminalInv

LEMMA Resolution ==
    ASSUME Domains, NEW t \in Terminals, TerminalInv(t), step[t] \in Resolving,
           at[t] <= Len(PROMPT_ROLES), Role(t) \in cfg[t].roles,
           NEW source \in {"external", "embedded-default"}, NEW txt \in Contents,
           IF source = "external" THEN txt \in seen[t][Role(t)] ELSE "absent" \in seen[t][Role(t)],
           Resolve(t, source, txt)
    PROVE  TerminalInv(t)'
  <1> DEFINE N == Len(sent[t])
             p == [role |-> Role(t), text |-> txt]
             u == [role |-> Role(t), source |-> source, text |-> txt]
  <1>1. /\ step'[t] = "inspect" /\ at'[t] = at[t] + 1
        /\ sent'[t] = Append(sent[t], p) /\ usage'[t] = Append(usage[t], u)
        /\ disk' = disk /\ seen' = seen /\ cfg' = cfg /\ todo' = todo
    BY DEF Resolve, Goto, NoFileWritten, Domains
  <1>2. OnServer(t)' = OnServer(t) /\ Role(t) = PROMPT_ROLES[at[t]]
    BY <1>1 DEF OnServer, Command, Role
  <1>3. /\ ~OnServer(t) /\ at[t] \in 1..Len(PROMPT_ROLES) + 1
        /\ sent[t] \in Seq(Prompt) /\ usage[t] \in Seq(Usage) /\ Len(usage[t]) = N
    BY DEF TerminalInv, Prompted, Noted
  <1>4. at[t] + 1 \in 1..Len(PROMPT_ROLES) + 1 /\ (at[t] + 1) - 1 = at[t] /\ at[t] \in Nat \ {0}
        /\ at[t] \in 1..Len(PROMPT_ROLES)
    BY <1>3, RolesOfPrompts
  <1>5. Role(t) \in Roles
    BY <1>2, <1>4, RolesOfPrompts
  <1>6. p \in Prompt /\ u \in Usage
    BY <1>5 DEF Prompt, Usage
  <1> HIDE DEF Prompt, Usage
  <1>7. /\ sent'[t] \in Seq(Prompt) /\ Len(sent'[t]) = N + 1 /\ sent'[t][N + 1] = p /\ N \in Nat
        /\ \A n \in 1..N : sent'[t][n] = sent[t][n]
    <2> HIDE DEF p
    <2> QED
      BY <1>1, <1>3, <1>6, Longer
  <1>8. /\ usage'[t] \in Seq(Usage) /\ Len(usage'[t]) = N + 1 /\ usage'[t][N + 1] = u
        /\ \A n \in 1..N : usage'[t][n] = usage[t][n]
    <2> HIDE DEF u
    <2> QED
      BY <1>1, <1>3, <1>6, Longer
  <1>9. PICK ix \in [1..N -> 1..at[t] - 1] :
           /\ EnabledBefore(at[t], cfg[t].roles, ix)
           /\ \A n \in DOMAIN ix : sent[t][n].role = PROMPT_ROLES[ix[n]]
    BY DEF TerminalInv, Prompted
  <1>10. u.role = p.role /\ u.text = p.text /\ u.source = source /\ u.text = txt /\ u.role = Role(t)
         /\ p.role = Role(t)
    OBVIOUS
  <1> HIDE DEF N, p, u
  <1>11. \A n \in 1..N + 1 : n \in 1..N \/ n = N + 1
    BY <1>7
  <1>12. Noted(t)'
    <2>1. \A n \in 1..N : LET v == usage[t][n] IN
             /\ v.role = sent[t][n].role /\ v.text = sent[t][n].text
             /\ IF v.source = "external" THEN v.text \in seen[t][v.role] ELSE "absent" \in seen[t][v.role]
      BY DEF TerminalInv, Noted, N
    <2>2. \A n \in 1..N + 1 : LET v == usage'[t][n] IN
             /\ v.role = sent'[t][n].role /\ v.text = sent'[t][n].text
             /\ IF v.source = "external" THEN v.text \in seen[t][v.role] ELSE "absent" \in seen[t][v.role]
      BY <1>7, <1>8, <1>10, <1>11, <2>1
    <2> QED
      BY <1>1, <1>7, <1>8, <2>2 DEF Noted, Resolving
  <1> DEFINE more == [n \in 1..N + 1 |-> IF n = N + 1 THEN at[t] ELSE ix[n]]
  <1>13. more \in [1..N + 1 -> 1..at[t]] /\ EnabledBefore(at[t] + 1, cfg[t].roles, more)
    <2>1. N \in Nat /\ at[t] \in Nat \ {0} /\ PROMPT_ROLES[at[t]] \in cfg[t].roles
      BY <1>2, <1>4, <1>7
    <2>2. ix \in [1..N -> 1..at[t] - 1] /\ EnabledBefore(at[t], cfg[t].roles, ix)
      BY <1>9
    <2>3. /\ more \in [1..N + 1 -> 1..at[t]] /\ more[N + 1] = at[t]
          /\ \A n \in 1..N : more[n] = ix[n]
      BY <2>1, <2>2
    <2> HIDE DEF more, N
    <2>4. Extends(more, ix, N, at[t], cfg[t].roles)
      BY <2>1, <2>2, <2>3, Zenon DEF Extends
    <2>5. EnabledBefore(at[t] + 1, cfg[t].roles, more)
      BY <2>4, EnabledGrows, Zenon
    <2> QED
      BY <2>3, <2>5, Zenon
  <1>14. \A n \in DOMAIN more : sent'[t][n].role = PROMPT_ROLES[more[n]]
    <2>1. sent'[t][N + 1].role = PROMPT_ROLES[at[t]]
      BY <1>2, <1>7, <1>10
    <2>2. \A n \in 1..N : sent'[t][n].role = PROMPT_ROLES[ix[n]]
      BY <1>7, <1>9
    <2>3. DOMAIN more = 1..N + 1
      OBVIOUS
    <2> QED
      BY <1>7, <1>11, <2>1, <2>2, <2>3
  <1> HIDE DEF more
  <1>15. Prompted(t)'
    BY <1>1, <1>2, <1>3, <1>4, <1>7, <1>13, <1>14 DEF Prompted
  <1>16. Looked(t)'
    BY <1>1 DEF TerminalInv, Looked, Exporting, Resolving
  <1> QED
    BY <1>12, <1>15, <1>16 DEF TerminalInv

(* What a step of a terminal does to the files.                            *)
LEMMA OwnFiles ==
    ASSUME Domains, \A f \in Files : disk[f] \in Contents, NEW t \in Terminals, TerminalInv(t),
           Own(t) \/ Killed(t) \/ Edit(t)
    PROVE  \/ UNCHANGED <<disk, seen>>
           \/ \E f \in Files, c \in Contents : Put(f, c)
  <1>1. LoadConfig(t) \/ ResolveMode(t) \/ RemoteCall(t) => UNCHANGED <<disk, seen>>
    BY DEF LoadConfig, ResolveMode, RemoteCall, NoFileWritten
  <1>2. InspectPrompt(t) \/ ResolvePath(t) \/ ReadPrompt(t) \/ FinishReview(t) => UNCHANGED <<disk, seen>>
    BY DEF InspectPrompt, ResolvePath, ReadPrompt, FinishReview, Resolve, NoFileWritten
  <1>3. FindEditor(t) \/ Check(t) \/ Discover(t) \/ Discovered(t) \/ Killed(t) => UNCHANGED <<disk, seen>>
    BY DEF FindEditor, Check, Discover, Discovered, Killed, NoFileWritten
  <1>4. step[t] \in Exporting => File(t) \in Files
    BY ExportsType DEF File, TerminalInv, Looked
  <1>5. CASE CreateFile(t)
    <2>1. step[t] \in Exporting
      BY <1>5 DEF CreateFile, Exporting
    <2>2. UNCHANGED <<disk, seen>> \/ Put(File(t), "outside") \/ Put(File(t), "torn")
      BY <1>5 DEF CreateFile
    <2> QED
      BY <1>4, <2>1, <2>2 DEF Contents
  <1>6. CASE WriteFile(t)
    <2>1. step[t] \in Exporting
      BY <1>6 DEF WriteFile, Exporting
    <2>2. UNCHANGED <<disk, seen>> \/ Put(File(t), "default")
      BY <1>6 DEF WriteFile
    <2> QED
      BY <1>4, <2>1, <2>2 DEF Contents
  <1>7. CASE Edit(t)
    <2>1. UNCHANGED <<disk, seen>> \/ Put("config", "mine") \/ Put("config", "broken")
      BY <1>7 DEF Edit
    <2> QED
      BY <2>1 DEF Contents, Files
  <1> QED
    BY <1>1, <1>2, <1>3, <1>5, <1>6, <1>7 DEF Own

LEMMA BeginStep ==
    ASSUME Domains, NEW t \in Terminals, TerminalInv(t), Begin(t)
    PROVE  TerminalInv(t)'
  <1>1. step[t] = "idle" /\ sent[t] = << >> /\ usage[t] = << >>
    BY DEF Begin, TerminalInv, Noted, Resolving
  <1>2. /\ step'[t] \in {"check", "find", "load"} /\ at'[t] = 1
        /\ UNCHANGED <<todo, sent, usage, disk>>
        /\ \A f \in Files : seen'[t][f] = {disk[f]}
    BY DEF Begin, Goto, Domains
  <1>3. Exports(t)' = Exports(t)
    BY <1>2 DEF Exports, Command
  <1>4. 1 \in 1..Len(Exports(t))
    BY ExportsType
  <1>5. << >> \in Seq(Prompt) /\ << >> \in Seq(Usage)
    OBVIOUS
  <1>6. Looked(t)'
    <2> HIDE DEF Files
    <2> QED
      BY <1>2, <1>3, <1>4 DEF Looked, Exporting
  <1>7. sent'[t] = << >> /\ usage'[t] = << >> /\ step'[t] \notin Resolving
    BY <1>1, <1>2 DEF Resolving
  <1>8. Noted(t)'
    BY <1>5, <1>7 DEF Noted
  <1>9. Prompted(t)'
    BY <1>7 DEF Prompted
  <1> QED
    BY <1>6, <1>8, <1>9 DEF TerminalInv

(* The export of one default file after the other.                         *)
LEMMA ExportStep ==
    ASSUME Domains, \A f \in Files : disk[f] \in Contents, NEW t \in Terminals, TerminalInv(t),
           FindEditor(t) \/ Check(t) \/ CreateFile(t) \/ WriteFile(t)
    PROVE  TerminalInv(t)'
  <1>1. step[t] # "idle" /\ step[t] \notin Resolving
    BY DEF FindEditor, Check, CreateFile, WriteFile, Resolving
  <1>2. UNCHANGED <<disk, seen>> \/ \E f \in Files, c \in Contents : Put(f, c)
    BY OwnFiles DEF Own
  <1>3. Follows(t) /\ \A f \in Files : disk'[f] \in seen'[t][f]
    <2>1. Follows(t)
      BY <1>1, <1>2, FileEffect
    <2> QED
      BY <1>1, <2>1 DEF Follows
  <1>4. CASE Exit(t)
    BY <1>4, Exiting
  <1>5. step[t] \in Exporting => at[t] \in 1..Len(Exports(t)) /\ File(t) \in Files
    BY ExportsType DEF File, TerminalInv, Looked
  <1>6. ASSUME Exported(t), step[t] \in Exporting
        PROVE  TerminalInv(t)'
    <2>1. CASE Goto(t, "check", at[t] + 1) /\ UNCHANGED <<todo, sent, usage>> /\ at[t] < Len(Exports(t))
      <3>1. at[t] + 1 \in 1..Len(Exports(t))
        BY <1>5, <1>6, <2>1, ExportsType
      <3> QED
        BY <1>1, <1>3, <2>1, <3>1, Moving DEF Exporting, Resolving
    <2>2. CASE Goto(t, "editor", 1) /\ UNCHANGED <<todo, sent, usage>>
      BY <1>1, <1>3, <2>2, Moving DEF Exporting, Resolving
    <2> QED
      BY <1>4, <1>6, <2>1, <2>2 DEF Exported
  <1>7. CASE FindEditor(t) /\ ~Exit(t)
    <2>1. Goto(t, "check", 1) /\ UNCHANGED <<todo, sent, usage>> /\ 1 \in 1..Len(Exports(t))
      BY <1>7, ExportsType DEF FindEditor
    <2> QED
      BY <1>1, <1>3, <2>1, Moving DEF Exporting, Resolving
  <1>8. CASE Check(t)
    <2>1. step[t] = "check" /\ step[t] \in Exporting /\ UNCHANGED <<disk, seen>>
      BY <1>8 DEF Check, Exporting, NoFileWritten
    <2>2. CASE Exists(File(t))
      BY <1>6, <1>8, <2>1, <2>2 DEF Check
    <2>3. CASE ~Exists(File(t))
      <3>1. Goto(t, "create", at[t]) /\ UNCHANGED <<todo, sent, usage>>
        BY <1>8, <2>3 DEF Check
      <3>2. disk[File(t)] \in Absent /\ disk[File(t)] \in seen[t][File(t)]
        BY <1>1, <1>5, <2>1, <2>3 DEF Exists, Absent, TerminalInv, Looked
      <3>3. seen'[t][Exports(t)[at[t]]] \cap Absent # {}
        BY <2>1, <3>2 DEF File
      <3> QED
        BY <1>1, <1>3, <1>5, <2>1, <3>1, <3>3, Moving DEF Exporting, Resolving
    <2> QED
      BY <2>2, <2>3
  <1>9. CASE CreateFile(t) /\ ~Exit(t)
    <2>1. step[t] = "create" /\ step[t] \in Exporting /\ Goto(t, "write", at[t]) /\ UNCHANGED <<todo, sent, usage>>
      BY <1>9 DEF CreateFile, Exporting
    <2>2. seen'[t][Exports(t)[at[t]]] \cap Absent # {}
      BY <1>3, <1>5, <2>1 DEF File, TerminalInv, Looked, Follows
    <2> QED
      BY <1>1, <1>3, <1>5, <2>1, <2>2, Moving DEF Exporting, Resolving
  <1>10. CASE WriteFile(t)
    BY <1>6, <1>10 DEF WriteFile, Exporting
  <1> QED
    BY <1>4, <1>7, <1>8, <1>9, <1>10

(* The resolution of the prompts.                                          *)
LEMMA PromptStep ==
    ASSUME Domains, \A f \in Files : disk[f] \in Contents, NEW t \in Terminals, TerminalInv(t),
           ResolveMode(t) \/ InspectPrompt(t) \/ ResolvePath(t) \/ ReadPrompt(t)
    PROVE  TerminalInv(t)'
  <1>1. \A f \in Files : disk[f] \in seen[t][f]
    BY DEF ResolveMode, InspectPrompt, ResolvePath, ReadPrompt, TerminalInv, Looked
  <1>2. at[t] \in 1..Len(PROMPT_ROLES) => Role(t) \in Files
    BY RolesOfPrompts DEF Role
  <1>3. CASE ResolveMode(t)
    <2>1. step[t] = "mode" /\ UNCHANGED <<todo, cfg, sent, usage, disk, seen>> /\ step[t] \notin Resolving
      BY <1>3 DEF ResolveMode, NoFileWritten, Resolving
    <2>2. CASE OnServer(t)
      <3>1. Goto(t, "remote", 1)
        BY <1>3, <2>2 DEF ResolveMode
      <3> QED
        BY <1>1, <2>1, <3>1, Moving DEF Exporting, Resolving, Follows
    <2>3. CASE ~OnServer(t)
      <3>1. step'[t] = "inspect" /\ at'[t] = 1
        BY <1>3, <2>3 DEF ResolveMode, Goto, Domains
      <3>2. sent[t] = << >> /\ usage[t] = << >> /\ ~OnServer(t)'
        BY <2>1, <2>3 DEF TerminalInv, Noted, OnServer, Command
      <3>3. Looked(t)' /\ Noted(t)'
        BY <1>1, <2>1, <3>1, <3>2 DEF TerminalInv, Looked, Noted, Exporting
      <3>4. \E ix \in [1..Len(sent'[t]) -> 1..at'[t] - 1] :
               /\ EnabledBefore(at'[t], cfg'[t].roles, ix)
               /\ \A n \in DOMAIN ix : sent'[t][n].role = PROMPT_ROLES[ix[n]]
        <4> DEFINE ix == [n \in 1..0 |-> 0]
        <4>1. Len(sent'[t]) = 0 /\ at'[t] - 1 = 0
          BY <2>1, <3>1, <3>2
        <4>2. ix \in [1..0 -> 1..0] /\ DOMAIN ix = 1..0 /\ 1..0 = {}
          OBVIOUS
        <4> HIDE DEF ix
        <4>3. EnabledBefore(1, cfg'[t].roles, ix)
          BY <4>2 DEF EnabledBefore
        <4> QED
          BY <3>1, <4>1, <4>2, <4>3
      <3>5. Prompted(t)'
        BY <3>1, <3>2, <3>4, RolesOfPrompts DEF Prompted
      <3> QED
        BY <3>3, <3>5 DEF TerminalInv
    <2> QED
      BY <2>2, <2>3
  <1>4. CASE InspectPrompt(t)
    <2>1. step[t] = "inspect" /\ step[t] \in Resolving /\ at[t] <= Len(PROMPT_ROLES)
      BY <1>4 DEF InspectPrompt, Resolving
    <2>2. at[t] \in 1..Len(PROMPT_ROLES)
      BY <2>1, RolesOfPrompts DEF TerminalInv, Prompted
    <2>3. CASE Role(t) \in cfg[t].roles /\ disk[Role(t)] = "absent"
      <3>1. Resolve(t, "embedded-default", "default")
        BY <1>4, <2>3 DEF InspectPrompt
      <3>2. "absent" \in seen[t][Role(t)]
        BY <1>1, <1>2, <2>2, <2>3
      <3> QED
        BY <2>1, <2>3, <3>1, <3>2, Resolution DEF Contents
    <2>4. CASE Role(t) \in cfg[t].roles /\ disk[Role(t)] # "absent"
      <3>1. Goto(t, "resolve", at[t]) /\ UNCHANGED <<todo, cfg, sent, usage, disk, seen>>
        BY <1>4, <2>4 DEF InspectPrompt, NoFileWritten
      <3>2. step'[t] = "resolve" /\ at'[t] = at[t]
        BY <3>1 DEF Goto, Domains
      <3>3. OnServer(t)' = OnServer(t) /\ Role(t)' = Role(t)
        BY <3>1, <3>2 DEF OnServer, Command, Role
      <3> QED
        BY <2>1, <2>4, <3>1, <3>2, <3>3 DEF TerminalInv, Looked, Noted, Prompted, Exporting, Resolving
    <2>5. CASE Role(t) \notin cfg[t].roles
      <3>1. Goto(t, "inspect", at[t] + 1) /\ UNCHANGED <<todo, cfg, sent, usage, disk, seen>>
        BY <1>4, <2>5 DEF InspectPrompt, NoFileWritten
      <3> QED
        BY <2>1, <2>5, <3>1, Passing
    <2> QED
      BY <2>3, <2>4, <2>5
  <1>5. CASE ReadPrompt(t)
    <2>1. step[t] = "read" /\ step[t] \in Resolving
      BY <1>5 DEF ReadPrompt, Resolving
    <2>2. at[t] \in 1..Len(PROMPT_ROLES) /\ at[t] <= Len(PROMPT_ROLES) /\ Role(t) \in cfg[t].roles
      BY <2>1, RolesOfPrompts DEF TerminalInv, Prompted
    <2>3. CASE Readable(disk[Role(t)])
      <3>1. Resolve(t, "external", disk[Role(t)])
        BY <1>5, <2>3 DEF ReadPrompt
      <3>2. disk[Role(t)] \in Contents /\ disk[Role(t)] \in seen[t][Role(t)]
        BY <1>1, <1>2, <2>2
      <3> QED
        BY <2>1, <2>2, <3>1, <3>2, Resolution
    <2>4. CASE ~Readable(disk[Role(t)])
      BY <1>5, <2>4, Exiting DEF ReadPrompt
    <2> QED
      BY <2>3, <2>4
  <1>6. CASE ResolvePath(t)
    <2>1. step[t] = "resolve" /\ step[t] \in Resolving
      BY <1>6 DEF ResolvePath, Resolving
    <2>2. Role(t) \in cfg[t].roles /\ at[t] <= Len(PROMPT_ROLES)
      BY <2>1 DEF TerminalInv, Prompted
    <2>3. CASE Inside(disk[Role(t)])
      <3>1. Goto(t, "read", at[t]) /\ UNCHANGED <<todo, cfg, sent, usage, disk, seen>>
        BY <1>6, <2>3 DEF ResolvePath, NoFileWritten
      <3>2. step'[t] = "read" /\ at'[t] = at[t]
        BY <3>1 DEF Goto, Domains
      <3>3. OnServer(t)' = OnServer(t) /\ Role(t)' = Role(t)
        BY <3>1, <3>2 DEF OnServer, Command, Role
      <3> QED
        BY <2>1, <2>2, <3>1, <3>2, <3>3 DEF TerminalInv, Looked, Noted, Prompted, Exporting, Resolving
    <2>4. CASE ~Inside(disk[Role(t)])
      BY <1>6, <2>4, Exiting DEF ResolvePath, NoFileWritten
    <2> QED
      BY <2>3, <2>4
  <1> QED
    BY <1>3, <1>4, <1>5, <1>6

LEMMA OwnStep ==
    ASSUME Domains, \A f \in Files : disk[f] \in Contents, NEW t \in Terminals, TerminalInv(t),
           Begin(t) \/ Own(t) \/ Killed(t) \/ Edit(t)
    PROVE  TerminalInv(t)'
  <1>1. CASE LoadConfig(t)
    <2>1. /\ step[t] = "load" /\ UNCHANGED <<disk, seen>>
          /\ \/ Exit(t)
             \/ UNCHANGED <<todo, sent, usage>> /\ \E s \in {"check", "discover", "mode"} : Goto(t, s, 1)
      BY <1>1 DEF LoadConfig, NoFileWritten
    <2>2. CASE Exit(t)
      BY <2>2, Exiting
    <2>3. CASE UNCHANGED <<todo, sent, usage>> /\ \E s \in {"check", "discover", "mode"} : Goto(t, s, 1)
      <3>1. PICK s \in {"check", "discover", "mode"} : Goto(t, s, 1)
        BY <2>3
      <3>2. 1 \in 1..Len(Exports(t)) /\ Follows(t) /\ \A f \in Files : disk'[f] \in seen'[t][f]
        BY <2>1, ExportsType DEF Follows, TerminalInv, Looked
      <3> QED
        BY <2>1, <2>3, <3>1, <3>2, Moving DEF Exporting, Resolving
    <2> QED
      BY <2>1, <2>2, <2>3
  <1>2. CASE RemoteCall(t) \/ Discover(t)
    <2>1. /\ step[t] \in {"remote", "discover"} /\ UNCHANGED <<disk, seen>>
          /\ \/ Exit(t)
             \/ /\ UNCHANGED <<todo, sent, usage>>
                /\ Goto(t, "remote", at[t] + 1) \/ Goto(t, "browsing", 1)
      BY <1>2 DEF RemoteCall, Discover, NoFileWritten
    <2>2. CASE Exit(t)
      BY <2>2, Exiting
    <2>3. CASE /\ UNCHANGED <<todo, sent, usage>>
               /\ Goto(t, "remote", at[t] + 1) \/ Goto(t, "browsing", 1)
      <3>1. Follows(t) /\ \A f \in Files : disk'[f] \in seen'[t][f]
        BY <2>1 DEF Follows, TerminalInv, Looked
      <3> QED
        BY <2>1, <2>3, <3>1, Moving DEF Exporting, Resolving
    <2> QED
      BY <2>1, <2>2, <2>3
  <1>3. CASE FinishReview(t) \/ Discovered(t) \/ Killed(t) \/ Edit(t)
    BY <1>3, Exiting DEF FinishReview, Discovered, Killed, Edit
  <1>4. CASE ResolveMode(t) \/ InspectPrompt(t) \/ ResolvePath(t) \/ ReadPrompt(t)
    BY <1>4, PromptStep
  <1>5. CASE FindEditor(t) \/ Check(t) \/ CreateFile(t) \/ WriteFile(t)
    BY <1>5, ExportStep
  <1>6. CASE Begin(t)
    BY <1>6, BeginStep
  <1> QED
    BY <1>1, <1>2, <1>3, <1>4, <1>5, <1>6 DEF Own

LEMMA CommandStep == CommandInv /\ [CommandNext]_commandVars => CommandInv'
  <1> SUFFICES ASSUME CommandInv, [CommandNext]_commandVars PROVE CommandInv'
    OBVIOUS
  <1>1. Domains /\ (\A f \in Files : disk[f] \in Contents) /\ \A t \in Terminals : TerminalInv(t)
    BY DEF CommandInv
  <1>2. ASSUME NEW t \in Terminals, Begin(t) \/ Own(t) \/ Killed(t) \/ Edit(t)
        PROVE  CommandInv'
    <2>1. TerminalInv(t)'
      BY <1>1, <1>2, OwnStep
    <2>2. CASE Begin(t)
      <3>1. /\ disk' = disk /\ DOMAIN seen' = Terminals
            /\ \A u \in Terminals : DOMAIN seen'[u] = Files
            /\ \A u \in Terminals \ {t} : seen'[u] = seen[u]
        <4> HIDE DEF Files
        <4> QED
          BY <1>1, <2>2 DEF Begin, Domains
      <3>2. ASSUME NEW u \in Terminals \ {t} PROVE TerminalInv(u)'
        <4>1. step[u] # "idle" => Follows(u)
          BY <1>1, <3>1 DEF Follows, TerminalInv, Looked
        <4>2. Rests(u)
          BY <1>1, <2>2, OnlyOne
        <4> QED
          BY <1>1, <4>1, <4>2, Resting
      <3>3. Domains'
        BY <1>1, <2>2, <3>1, OnlyOne DEF Domains
      <3> QED
        BY <1>1, <2>1, <3>1, <3>2, <3>3 DEF CommandInv
    <2>3. CASE Own(t) \/ Killed(t) \/ Edit(t)
      <3>1. UNCHANGED <<disk, seen>> \/ \E f \in Files, c \in Contents : Put(f, c)
        BY <1>1, <2>3, OwnFiles
      <3>2. ASSUME NEW u \in Terminals \ {t} PROVE TerminalInv(u)'
        <4>1. step[u] # "idle" => Follows(u)
          BY <1>1, <3>1, FileEffect
        <4>2. Rests(u)
          BY <1>1, <2>3, OnlyOne
        <4> QED
          BY <1>1, <4>1, <4>2, Resting
      <3>3. /\ DOMAIN disk' = Files /\ DOMAIN seen' = Terminals
            /\ \A u \in Terminals : DOMAIN seen'[u] = Files
            /\ \A f \in Files : disk'[f] \in Contents
        BY <1>1, <3>1, FilesType
      <3>4. Domains'
        BY <1>1, <2>3, <3>3, OnlyOne DEF Domains
      <3> QED
        BY <2>1, <3>2, <3>3, <3>4 DEF CommandInv
    <2> QED
      BY <1>2, <2>2, <2>3
  <1>3. ASSUME UNCHANGED terminalVars,
               UNCHANGED <<disk, seen>> \/ \E f \in Files, c \in Contents : Put(f, c)
        PROVE  CommandInv'
    <2>1. ASSUME NEW u \in Terminals PROVE TerminalInv(u)'
      <3>1. step[u] # "idle" => Follows(u)
        BY <1>1, <1>3, FileEffect
      <3>2. Rests(u)
        BY <1>3 DEF terminalVars, Rests
      <3> QED
        BY <1>1, <3>1, <3>2, Resting
    <2>2. /\ DOMAIN disk' = Files /\ DOMAIN seen' = Terminals
          /\ \A u \in Terminals : DOMAIN seen'[u] = Files
          /\ \A f \in Files : disk'[f] \in Contents
      BY <1>1, <1>3, FilesType
    <2>3. Domains'
      BY <1>1, <1>3, <2>2 DEF Domains, terminalVars
    <2> QED
      BY <2>1, <2>2, <2>3 DEF CommandInv
  <1>4. CASE \E f \in Files : UserChanges(f)
    <2>1. PICK f \in Files : UserChanges(f)
      BY <1>4
    <2>2. UNCHANGED terminalVars /\ \E c \in Contents : Put(f, c)
      BY <2>1 DEF UserChanges, Contents
    <2> QED
      BY <1>3, <2>2
  <1>5. CASE Listening \/ UNCHANGED commandVars
    <2>1. UNCHANGED terminalVars /\ UNCHANGED <<disk, seen>>
      BY <1>5 DEF Listening, commandVars, terminalVars
    <2> QED
      BY <1>3, <2>1
  <1> QED
    BY <1>2, <1>4, <1>5 DEF CommandNext

LEMMA CommandAlways == CommandSpec => []CommandInv
  BY InitCommand, CommandStep, PTL DEF CommandSpec

-----------------------------------------------------------------------------
(* A step of terminal t is its own.                                        *)
LEMMA Whose ==
    ASSUME CommandInv, [CommandNext]_commandVars, NEW t \in Terminals,
           ~Rests(t) \/ recorded'[t] # recorded[t]
    PROVE  Begin(t) \/ Own(t) \/ Killed(t) \/ Edit(t)
  <1>1. ASSUME NEW u \in Terminals \ {t}, Begin(u) \/ Own(u) \/ Killed(u) \/ Edit(u)
        PROVE  Rests(t) /\ recorded'[t] = recorded[t]
    BY <1>1, OnlyOne DEF CommandInv
  <1>2. ASSUME UNCHANGED terminalVars PROVE Rests(t) /\ recorded'[t] = recorded[t]
    BY <1>2 DEF terminalVars, Rests
  <1>3. (\E f \in Files : UserChanges(f)) \/ Listening \/ UNCHANGED commandVars => UNCHANGED terminalVars
    BY DEF UserChanges, Listening, commandVars, terminalVars
  <1> QED
    BY <1>1, <1>2, <1>3 DEF CommandNext

(* Whatever other terminals and the user do between two file operations:   *)
(* no command changes a file that has existed since it began               *)
(* (init_prompt_directory, write_default_to, run_setup_at).                *)
THEOREM EditsAlwaysKept == CommandSpec => EditsKept
  <1> DEFINE Kept(t) == (step'[t] # step[t] \/ at'[t] # at[t]) /\ step[t] \notin {"idle", "editor"} =>
                \A f \in Files : seen[t][f] \cap {"absent", "dangling"} = {} => disk'[f] = disk[f]
  <1>1. ASSUME CommandInv, [CommandNext]_commandVars, NEW t \in Terminals
        PROVE  Kept(t)
    <2> SUFFICES ASSUME step'[t] # step[t] \/ at'[t] # at[t], step[t] \notin {"idle", "editor"},
                        NEW f \in Files, seen[t][f] \cap {"absent", "dangling"} = {}
                 PROVE  disk'[f] = disk[f]
      OBVIOUS
    <2>1. Begin(t) \/ Own(t) \/ Killed(t) \/ Edit(t)
      BY <1>1, Whose DEF Rests
    <2>2. step[t] \in {"create", "write"} => File(t) # f
      BY <1>1 DEF CommandInv, TerminalInv, Looked, Absent
    <2>3. CASE CreateFile(t) \/ WriteFile(t)
      <3>1. step[t] \in {"create", "write"} /\ (disk' = disk \/ \E c : Put(File(t), c))
        BY <2>3 DEF CreateFile, WriteFile
      <3> QED
        BY <1>1, <2>2, <3>1 DEF Put, CommandInv, Domains
    <2>4. LoadConfig(t) \/ ResolveMode(t) \/ RemoteCall(t) => disk' = disk
      BY DEF LoadConfig, ResolveMode, RemoteCall, NoFileWritten
    <2>5. InspectPrompt(t) \/ ResolvePath(t) \/ ReadPrompt(t) \/ FinishReview(t) => disk' = disk
      BY DEF InspectPrompt, ResolvePath, ReadPrompt, FinishReview, Resolve, NoFileWritten
    <2>6. FindEditor(t) \/ Check(t) \/ Discover(t) \/ Discovered(t) \/ Killed(t) => disk' = disk
      BY DEF FindEditor, Check, Discover, Discovered, Killed, NoFileWritten
    <2>7. ~Begin(t) /\ ~Edit(t)
      BY DEF Begin, Edit
    <2> QED
      BY <2>1, <2>3, <2>4, <2>5, <2>6, <2>7 DEF Own
  <1>2. CommandInv /\ [CommandNext]_commandVars => \A t \in Terminals : Kept(t)
    BY <1>1
  <1>3. CommandInv /\ [CommandNext]_commandVars => [\A t \in Terminals : Kept(t)]_commandVars
    BY <1>2
  <1> QED
    BY <1>3, CommandAlways, PTL DEF CommandSpec, EditsKept

(* Whatever is edited, deleted and replaced while the prompts are resolved *)
(* one after the other: the record names the enabled reviewers in order,   *)
(* with what each was sent, and never the embedded prompt for a file that  *)
(* was there all the time (reviewer_assignments, resolve_prompt); and no   *)
(* review for a server is run here (resolve_server_url).                   *)
THEOREM PromptsAlwaysAuditable == CommandSpec => PromptsAuditable
  <1> DEFINE Auditable(t) ==
          /\ ~OnServer(t)
          /\ \E ix \in [1..Len(recorded'[t]) -> 1..Len(PROMPT_ROLES)] :
                /\ Enabled(cfg[t].roles, ix)
                /\ \A n \in DOMAIN ix : recorded'[t][n].agent = PROMPT_ROLES[ix[n]]
          /\ \A n \in DOMAIN recorded'[t] :
                LET u == recorded'[t][n].usage
                    had == seen[t][u.role]
                IN /\ u.role = recorded'[t][n].agent /\ u.text = recorded'[t][n].sent
                   /\ IF u.source = "external" THEN u.text \in had ELSE "absent" \in had
  <1>1. ASSUME CommandInv, [CommandNext]_commandVars, NEW t \in Terminals,
               recorded'[t] # recorded[t], recorded'[t] # << >>
        PROVE  Auditable(t)
    <2> DEFINE N == Len(sent[t])
               record == [n \in 1..N |->
                             [agent |-> sent[t][n].role, usage |-> usage[t][n], sent |-> sent[t][n].text]]
    <2>1. FinishReview(t)
      <3>1. Begin(t) \/ Own(t) \/ Killed(t) \/ Edit(t)
        BY <1>1, Whose
      <3>2. ~Begin(t)
        BY <1>1 DEF Begin, CommandInv, Domains
      <3>3. /\ LoadConfig(t) \/ ResolveMode(t) \/ RemoteCall(t) => recorded' = recorded
            /\ InspectPrompt(t) \/ ResolvePath(t) \/ ReadPrompt(t) => recorded' = recorded
        BY DEF LoadConfig, ResolveMode, RemoteCall, InspectPrompt, ResolvePath, ReadPrompt, Resolve
      <3>4. /\ FindEditor(t) \/ Check(t) \/ CreateFile(t) \/ WriteFile(t) => recorded' = recorded
            /\ Discover(t) \/ Discovered(t) \/ Killed(t) \/ Edit(t) => recorded' = recorded
        BY DEF FindEditor, Check, CreateFile, WriteFile, Discover, Discovered, Killed, Edit
      <3> QED
        BY <1>1, <3>1, <3>2, <3>3, <3>4 DEF Own
    <2>2. /\ step[t] \in Resolving /\ at[t] > Len(PROMPT_ROLES)
          /\ TerminalInv(t) /\ Domains
      BY <1>1, <2>1 DEF FinishReview, CommandInv, Resolving
    <2>3. /\ ~OnServer(t) /\ at[t] \in 1..Len(PROMPT_ROLES) + 1
          /\ sent[t] \in Seq(Prompt) /\ usage[t] \in Seq(Usage) /\ Len(usage[t]) = N
      BY <2>2 DEF TerminalInv, Prompted, Noted
    <2>4. N \in Nat /\ DOMAIN sent[t] = 1..N
      <3> HIDE DEF Prompt
      <3> QED
        BY <2>3
    <2>5. recorded'[t] = record
      BY <2>1, <2>2, <2>4 DEF FinishReview, Domains
    <2>6. Len(record) = N /\ DOMAIN record = 1..N
      BY <2>4
    <2>7. \A n \in 1..N : /\ record[n].agent = sent[t][n].role /\ record[n].usage = usage[t][n]
                          /\ record[n].sent = sent[t][n].text
      OBVIOUS
    <2> HIDE DEF N, record
    <2>8. at[t] - 1 = Len(PROMPT_ROLES)
      BY <2>2, <2>3, RolesOfPrompts
    <2>9. PICK ix \in [1..N -> 1..Len(PROMPT_ROLES)] :
             /\ EnabledBefore(at[t], cfg[t].roles, ix)
             /\ \A n \in DOMAIN ix : sent[t][n].role = PROMPT_ROLES[ix[n]]
      BY <2>2, <2>8 DEF TerminalInv, Prompted, N
    <2>10. Enabled(cfg[t].roles, ix)
      BY <2>8, <2>9 DEF Enabled, EnabledBefore
    <2>11. \A n \in DOMAIN ix : record[n].agent = PROMPT_ROLES[ix[n]]
      BY <2>7, <2>9
    <2>12. \A n \in 1..N :
              LET u == record[n].usage
                  had == seen[t][u.role]
              IN /\ u.role = record[n].agent /\ u.text = record[n].sent
                 /\ IF u.source = "external" THEN u.text \in had ELSE "absent" \in had
      BY <2>2, <2>7 DEF TerminalInv, Noted, N
    <2> QED
      BY <2>3, <2>5, <2>6, <2>9, <2>10, <2>11, <2>12
  <1> HIDE DEF Auditable
  <1>2. CommandInv /\ [CommandNext]_commandVars =>
           [\A t \in Terminals : recorded'[t] # recorded[t] /\ recorded'[t] # << >> => Auditable(t)]_commandVars
    BY <1>1
  <1> QED
    BY <1>2, CommandAlways, PTL DEF CommandSpec, PromptsAuditable, Auditable
=============================================================================
