--------------------------- MODULE IncludeResolver ---------------------------
(***************************************************************************)
(* How a LaTeX project is put together from its files (paper-guard-parser, *)
(* latex_project.rs): the resolver walks the \input and \include           *)
(* directives depth first, keeps the chain of files it is in, and reports  *)
(* what it cannot follow.  It must end, with everything accounted for, on  *)
(* whatever the files say.                                                 *)
(*                                                                         *)
(* A text is a sequence of lines, where "command" is any line that begins  *)
(* with one, prose after it or not; an include names the file its path    *)
(* leads to from the directory of the file it stands in, links followed.   *)
(* Of what a line says the parser tells apart the keys it cites (of a      *)
(* bibliography: those of its entries), the claim indicator in it, if any, *)
(* by its place in the list of them, and whether it is all ASCII.          *)
(***************************************************************************)
EXTENDS Naturals, Sequences, FiniteSets

CONSTANTS Files,                \* files that exist
          Root,                 \* the file under review
          Inside,               \* files in the directory of Root
          Readable,             \* files fs::read can read
          Nowhere,              \* what a path leads to where there is nothing
          Figure,               \* a target that is no .tex file
          Keys,                 \* BibTeX keys
          NoKey,                \* an entry without one
          Projects,             \* what the files may say: the texts by file
          MAX_INCLUDE_DEPTH, MAX_TOTAL_FRAGMENTS

Kinds == {"prose", "comment", "blank", "section", "command", "float", "abstract",
          "bibliography", "include"}
Elements == [kind : Kinds, to : Files \cup {Nowhere, Figure},
             keys : Seq(Keys \cup {NoKey}), claim : Nat, ascii : BOOLEAN]

ASSUME ResolverAssumption ==
    /\ Root \in Inside \cap Readable
    /\ Inside \subseteq Files /\ Readable \subseteq Files
    /\ Nowhere \notin Files /\ Figure \notin Files /\ NoKey \notin Keys
    /\ Projects \subseteq [Files -> Seq(Elements)]
    /\ MAX_INCLUDE_DEPTH \in Nat /\ MAX_TOTAL_FRAGMENTS \in Nat \ {0}

VARIABLES text,       \* text[f]: what file f says
          outcome,    \* "peek", "single", "resolving", "resolved" or "failed"
          frames,     \* the calls of resolve_file under way: file, last element seen
          fragments,  \* the project so far
          missing,    \* missing_includes
          cycles,     \* chains that came back to a file they are in
          visited     \* visited_count

resolverVars == <<text, outcome, frames, fragments, missing, cycles, visited>>

Fragment(f, depth, parent, line) ==
    [file |-> f, depth |-> depth, parent |-> parent, line |-> line]

(* find_includes: the includes of .tex files, in order.                    *)
IsDirective(f, k) == text[f][k].kind = "include" /\ text[f][k].to # Figure

Directives(f) == {k \in 1..Len(text[f]) : IsDirective(f, k)}

Top == frames[Len(frames)]
Ahead == {k \in Directives(Top.file) : k > Top.at}

-----------------------------------------------------------------------------
ResolverInit ==
    /\ text \in Projects
    /\ outcome = "peek"
    /\ frames = << >> /\ fragments = << >>
    /\ missing = << >> /\ cycles = << >>
    /\ visited = 0

(* resolve_file: file f, included at line of parent, below the frames of   *)
(* stack.  The depth is checked before the chain.                          *)
TooDeep(stack) ==
    /\ Len(stack) > MAX_INCLUDE_DEPTH \/ visited >= MAX_TOTAL_FRAGMENTS
    /\ outcome' = "failed"
    /\ frames' = << >>
    /\ UNCHANGED <<fragments, cycles, visited>>

(* Mutant: only a file that includes itself is a cycle.                    *)
OnChainSelf(f, stack) == stack # << >> /\ stack[Len(stack)].file = f

OnChain(f, stack) == \E k \in 1..Len(stack) : stack[k].file = f

ResolveFile(f, parent, line, stack) ==
    \/ TooDeep(stack)
    \/ /\ Len(stack) <= MAX_INCLUDE_DEPTH /\ visited < MAX_TOTAL_FRAGMENTS
       /\ visited' = visited + 1
       /\ outcome' = "resolving"
       /\ \/ /\ OnChain(f, stack)
             /\ cycles' = Append(cycles, [chain |-> [k \in 1..Len(stack) |-> stack[k].file], to |-> f])
             /\ frames' = stack
             /\ UNCHANGED fragments
          \/ /\ ~OnChain(f, stack)
             /\ frames' = Append(stack, [file |-> f, at |-> 0])
             /\ fragments' = Append(fragments, Fragment(f, Len(stack), parent, line))
             /\ UNCHANGED cycles

(* A root without any include is read as a single file.                    *)
Peek ==
    /\ outcome = "peek"
    /\ \/ /\ \A k \in 1..Len(text[Root]) : text[Root][k].kind # "include"
          /\ outcome' = "single"
          /\ fragments' = <<Fragment(Root, 0, Root, 0)>>
          /\ UNCHANGED <<frames, cycles, visited>>
       \/ /\ \E k \in 1..Len(text[Root]) : text[Root][k].kind = "include"
          /\ ResolveFile(Root, Root, 0, << >>)
    /\ UNCHANGED <<text, missing>>

Past(k) == [frames EXCEPT ![Len(frames)].at = k]

(* Mutant: a file that cannot be read is passed over in silence.           *)
ReportQuiet(k, why) == UNCHANGED missing

Report(k, why) == missing' = Append(missing, [in |-> Top.file, line |-> k, why |-> why])

(* Mutant: a link out of the directory is followed.                        *)
BlockedNever(t) == FALSE

(* path_is_inside, on a path whose links have been followed.               *)
Blocked(t) == t # Nowhere /\ t \notin Inside

(* The next include of the file on top leads nowhere, out of the root, or  *)
(* to a file that is read and resolved in turn.                            *)
Follow ==
    /\ outcome = "resolving" /\ frames # << >>
    /\ \E k \in Ahead :
          LET t == text[Top.file][k].to IN
          /\ \A j \in Ahead : k <= j
          /\ \/ /\ t = Nowhere \/ (~Blocked(t) /\ t \notin Readable)
                /\ Report(k, "not found")
                /\ frames' = Past(k)
                /\ UNCHANGED <<outcome, fragments, cycles, visited>>
             \/ /\ Blocked(t)
                /\ Report(k, "outside")
                /\ frames' = Past(k)
                /\ UNCHANGED <<outcome, fragments, cycles, visited>>
             \/ /\ t # Nowhere /\ ~Blocked(t) /\ t \in Readable
                /\ ResolveFile(t, Top.file, k, Past(k))
                /\ UNCHANGED missing
    /\ UNCHANGED text

(* All includes of the file on top are done.                               *)
Return ==
    /\ outcome = "resolving" /\ frames # << >> /\ Ahead = {}
    /\ frames' = SubSeq(frames, 1, Len(frames) - 1)
    /\ outcome' = IF Len(frames) = 1 THEN "resolved" ELSE "resolving"
    /\ UNCHANGED <<text, fragments, missing, cycles, visited>>

ResolverNext == Peek \/ Follow \/ Return

ResolverSpec == ResolverInit /\ [][ResolverNext]_resolverVars

-----------------------------------------------------------------------------
ResolverTypeOK ==
    /\ text \in [Files -> Seq(Elements)]
    /\ outcome \in {"peek", "single", "resolving", "resolved", "failed"}
    /\ frames \in Seq([file : Files, at : Nat])
    /\ fragments \in Seq([file : Files, depth : Nat, parent : Files, line : Nat])
    /\ missing \in Seq([in : Files, line : Nat, why : {"not found", "outside"}])
    /\ cycles \in Seq([chain : Seq(Files), to : Files])
    /\ visited \in Nat

(* The chain of files under way never repeats one and never grows past the *)
(* depth limit, and the project never past the fragment limit: no project  *)
(* makes the recursion unbounded.                                          *)
ChainBounded ==
    /\ Len(frames) <= MAX_INCLUDE_DEPTH + 1
    /\ Len(fragments) <= MAX_TOTAL_FRAGMENTS
    /\ \A j, k \in 1..Len(frames) : frames[j].file = frames[k].file => j = k

(* Each fragment is there because a fragment before it includes it at that *)
(* line, and lies inside the root: an included file is never read from     *)
(* outside it, through whatever path ("the file is never read").  And a    *)
(* resolved project accounts for every include of every fragment: each is  *)
(* a fragment, a cycle or a missing include ("never silently skips an      *)
(* include", docs/architecture.md).                                        *)
Included(i) ==
    LET g == fragments[i] IN
    /\ g.file \in Inside \cap Readable
    /\ IF i = 1 THEN g.file = Root /\ g.depth = 0
       ELSE \E j \in 1..i - 1 :
               /\ fragments[j].file = g.parent /\ fragments[j].depth + 1 = g.depth
               /\ g.line \in Directives(g.parent)
               /\ text[g.parent][g.line].to = g.file

IncludesAccounted ==
    /\ \A i \in 1..Len(fragments) : Included(i)
    /\ outcome = "resolved" =>
          Cardinality(UNION {{<<i, k>> : k \in Directives(fragments[i].file)} : i \in 1..Len(fragments)})
            = Len(fragments) - 1 + Len(missing) + Len(cycles)
=============================================================================
