------------------------ MODULE ReviewPipelineProofs ------------------------
(***************************************************************************)
(* Proofs about ReviewPipeline with the modules it is made of, for any     *)
(* project, any limits and any configuration: the bounds of the resolver,  *)
(* what becomes of each include, and where a manuscript may go.            *)
(*                                                                         *)
(* The argument, in three layers.  The resolver: Places puts each file     *)
(* under way at a fragment of its own, so the includes that have been      *)
(* followed are known, and each of them led to one fragment, cycle or      *)
(* missing include; the count of them is the invariant (ResolverInv).  The *)
(* parser: whatever is in a paragraph is the text of a page or a prose     *)
(* line of a fragment, and fragments are inside the project (DocumentInv). *)
(* The pipeline: what has been sent went to one the configuration names,   *)
(* is made of such lines, and went after parsing had ended (PipeInv).      *)
(* On the parser two more invariants rest: the sections of a PDF are those *)
(* of the pages so far (PdfInv), and the paragraphs so far with the open   *)
(* one are the prose before the line the merge is at (ProseInv).  A third  *)
(* says what they are linked to: ids are given out by counters, and what   *)
(* is cited or claimed belongs to a paragraph that is closed (LinkInv).    *)
(*                                                                         *)
(* What Concat and Sift return is proved in SequencingProofs.              *)
(***************************************************************************)
EXTENDS ReviewPipeline, SequencingProofs

-----------------------------------------------------------------------------
(* ix places the frames of a chain among the fragments: each at one of its *)
(* own, of its file and its depth.                                         *)
Places(frs, frg, ix) ==
    /\ ix \in [1..Len(frs) -> 1..Len(frg)]
    /\ \A j, k \in 1..Len(frs) : ix[j] = ix[k] => j = k
    /\ \A j \in 1..Len(frs) : frg[ix[j]].file = frs[j].file /\ frg[ix[j]].depth = j - 1

(* The includes that have been followed: all but those ahead of a frame.   *)
Followed(frs, frg, ix) ==
    {e \in (1..Len(frg)) \X Nat :
        /\ e[2] \in Directives(frg[e[1]].file)
        /\ \A j \in 1..Len(frs) : ix[j] = e[1] => e[2] <= frs[j].at}

(* Each of them led to one fragment, cycle or missing include.             *)
Accounted(frs, frg, ix) ==
    /\ IsFiniteSet(Followed(frs, frg, ix))
    /\ Cardinality(Followed(frs, frg, ix)) + 1 = Len(frg) + Len(missing) + Len(cycles)

Bounded ==
    /\ Len(frames) <= MAX_INCLUDE_DEPTH + 1
    /\ Len(fragments) <= MAX_TOTAL_FRAGMENTS
    /\ outcome # "single" => Len(fragments) <= visited

Distinct(frs) == \A j, k \in 1..Len(frs) : frs[j].file = frs[k].file => j = k

ResolverInv ==
    /\ ResolverTypeOK
    /\ outcome # "resolving" => frames = << >>
    /\ outcome = "peek" => fragments = << >> /\ missing = << >> /\ cycles = << >>
    /\ Bounded
    /\ Distinct(frames)
    /\ \A i \in 1..Len(fragments) : Included(i)
    /\ outcome \in {"resolving", "resolved"} =>
          \E ix : Places(frames, fragments, ix) /\ Accounted(frames, fragments, ix)

Reasons == {"not found", "outside"}
Frame == [file : Files, at : Nat]
FragmentType == [file : Files, depth : Nat, parent : Files, line : Nat]

-----------------------------------------------------------------------------
LEMMA Grows ==
    ASSUME NEW S, NEW s \in Seq(S), NEW x \in S
    PROVE  Append(s, x) \in Seq(S) /\ Len(Append(s, x)) = Len(s) + 1
  OBVIOUS

LEMMA Lengths ==
    ASSUME ResolverTypeOK
    PROVE  /\ Len(frames) \in Nat /\ Len(fragments) \in Nat
           /\ Len(missing) \in Nat /\ Len(cycles) \in Nat
  <1>1. \A S : \A s \in Seq(S) : Len(s) \in Nat
    OBVIOUS
  <1> QED
    BY <1>1, Zenon DEF ResolverTypeOK

LEMMA DirectivesType ==
    ASSUME ResolverTypeOK, NEW f \in Files
    PROVE  /\ Directives(f) \subseteq Nat \ {0}
           /\ \A k \in Directives(f) : text[f][k].to \in Files \cup {Nowhere}
  <1>1. text[f] \in Seq(Elements)
    BY DEF ResolverTypeOK
  <1>2. \A k \in 1..Len(text[f]) : text[f][k] \in Elements
    BY <1>1
  <1>3. \A k \in Directives(f) : /\ k \in 1..Len(text[f]) /\ text[f][k].to # Figure
                                 /\ text[f][k] \in Elements
    BY <1>2 DEF Directives, IsDirective
  <1>4. \A e \in Elements : e.to \in Files \cup {Nowhere, Figure}
    BY DEF Elements
  <1>5. Len(text[f]) \in Nat
    BY <1>1
  <1> QED
    BY <1>3, <1>4, <1>5

(* The frame on top moves to its next include.                             *)
LEMMA PastFollowed ==
    ASSUME ResolverTypeOK, frames # << >>, NEW ix, Places(frames, fragments, ix), Distinct(frames),
           NEW k \in Ahead, \A j \in Ahead : k <= j
    PROVE  /\ Past(k) \in Seq(Frame) /\ Len(Past(k)) = Len(frames)
           /\ \A j \in 1..Len(frames) : Past(k)[j].file = frames[j].file
           /\ Distinct(Past(k))
           /\ Places(Past(k), fragments, ix)
           /\ <<ix[Len(frames)], k>> \notin Followed(frames, fragments, ix)
           /\ Followed(Past(k), fragments, ix)
                 = Followed(frames, fragments, ix) \cup {<<ix[Len(frames)], k>>}
  <1> DEFINE n == Len(frames)
             new == Past(k)
  <1>0. frames \in Seq(Frame)
    BY DEF ResolverTypeOK, Frame
  <1>1. frames \in Seq(Frame) /\ n \in Nat \ {0}
    <2> HIDE DEF Frame, new
    <2> QED
      BY <1>0
  <1>2. /\ k \in Directives(frames[n].file) /\ k > frames[n].at
        /\ \A j \in Directives(frames[n].file) : j > frames[n].at => k <= j
    BY DEF Ahead, Top
  <1>3. frames[n] \in Frame /\ n \in 1..Len(frames)
    BY <1>1
  <1>4. k \in Nat /\ frames[n].at \in Nat /\ Directives(frames[n].file) \subseteq Nat
    BY <1>2, <1>3, DirectivesType DEF Frame
  <1>5. new = [j \in 1..n |-> IF j = n THEN [frames[n] EXCEPT !.at = k] ELSE frames[j]]
    BY <1>1 DEF Past
  <1>6. [frames[n] EXCEPT !.at = k] \in Frame
    BY <1>3, <1>4 DEF Frame
  <1>6a. /\ [frames[n] EXCEPT !.at = k].at = k
         /\ [frames[n] EXCEPT !.at = k].file = frames[n].file
    BY <1>3 DEF Frame
  <1>7. /\ \A j \in 1..n : new[j] \in Frame /\ new[j].file = frames[j].file
        /\ \A j \in 1..n : j # n => new[j].at = frames[j].at
        /\ new[n].at = k
    <2> HIDE DEF new
    <2>1. \A j \in 1..n : frames[j] \in Frame
      BY <1>1
    <2>2. \A j \in 1..n : new[j] = IF j = n THEN [frames[n] EXCEPT !.at = k] ELSE frames[j]
      BY <1>5
    <2> HIDE DEF n, Frame
    <2>3. new[n] = [frames[n] EXCEPT !.at = k]
      BY <2>2, <1>3 DEF n
    <2>4. \A j \in 1..n : j # n => new[j] = frames[j]
      BY <2>2
    <2>5. \A j \in 1..n : j = n \/ j # n
      OBVIOUS
    <2> QED
      BY <1>6, <1>6a, <2>1, <2>3, <2>4, <2>5
  <1>8. new \in Seq(Frame) /\ Len(new) = n
    <2> HIDE DEF Frame
    <2>1. new \in [1..n -> Frame]
      BY <1>5, <1>7
    <2> HIDE DEF new
    <2> QED
      BY <2>1, <1>1
  <1> HIDE DEF new
  <1>9. Places(new, fragments, ix)
    BY <1>7, <1>8 DEF Places
  <1>10. Distinct(new)
    BY <1>7, <1>8 DEF Distinct
  <1>11. /\ ix[n] \in 1..Len(fragments) /\ fragments[ix[n]].file = frames[n].file
         /\ \A j \in 1..n : ix[j] = ix[n] => j = n
    BY <1>3 DEF Places
  <1>12. <<ix[n], k>> \notin Followed(frames, fragments, ix)
    BY <1>2, <1>3, <1>4 DEF Followed
  <1>13. ASSUME NEW e \in (1..Len(fragments)) \X Nat
         PROVE  e \in Followed(new, fragments, ix)
                   <=> e \in Followed(frames, fragments, ix) \/ e = <<ix[n], k>>
    <2>1. CASE e[1] # ix[n]
      <3>1. \A j \in 1..n : ix[j] = e[1] => new[j].at = frames[j].at
        BY <2>1, <1>7
      <3> QED
        BY <2>1, <3>1, <1>8 DEF Followed
    <2>2. CASE e[1] = ix[n] /\ e[2] \in Directives(frames[n].file)
      <3>1. e[2] \in Nat
        OBVIOUS
      <3>2. e[2] <= k <=> e[2] <= frames[n].at \/ e[2] = k
        BY <2>2, <1>2, <1>4, <3>1
      <3>3. e \in Followed(new, fragments, ix) <=> e[2] <= k
        BY <2>2, <1>3, <1>7, <1>8, <1>11 DEF Followed
      <3>4. e \in Followed(frames, fragments, ix) <=> e[2] <= frames[n].at
        BY <2>2, <1>3, <1>11 DEF Followed
      <3>5. e = <<ix[n], k>> <=> e[2] = k
        BY <2>2
      <3> QED
        BY <3>2, <3>3, <3>4, <3>5
    <2>3. CASE e[1] = ix[n] /\ e[2] \notin Directives(frames[n].file)
      BY <2>3, <1>2, <1>11 DEF Followed
    <2> QED
      BY <2>1, <2>2, <2>3
  <1>14. <<ix[n], k>> \in (1..Len(fragments)) \X Nat
    BY <1>4, <1>11
  <1>15. Followed(new, fragments, ix) = Followed(frames, fragments, ix) \cup {<<ix[n], k>>}
    <2>1. /\ Followed(new, fragments, ix) \subseteq (1..Len(fragments)) \X Nat
          /\ Followed(frames, fragments, ix) \subseteq (1..Len(fragments)) \X Nat
      BY DEF Followed
    <2> QED
      BY <2>1, <1>13, <1>14
  <1> QED
    BY <1>7, <1>8, <1>9, <1>10, <1>12, <1>15 DEF new

(* A file is pushed on a chain: nothing of it has been followed yet.       *)
LEMMA PushFollowed ==
    ASSUME ResolverTypeOK, NEW stack \in Seq(Frame), NEW ix, Places(stack, fragments, ix),
           NEW f \in Files, NEW g \in FragmentType, g.file = f, g.depth = Len(stack)
    PROVE  LET more == [j \in 1..Len(stack) + 1 |->
                           IF j = Len(stack) + 1 THEN Len(fragments) + 1 ELSE ix[j]]
               pushed == Append(stack, [file |-> f, at |-> 0])
           IN  /\ Places(pushed, Append(fragments, g), more)
               /\ Followed(pushed, Append(fragments, g), more) = Followed(stack, fragments, ix)
  <1> DEFINE n == Len(stack)
             m == Len(fragments)
             more == [j \in 1..n + 1 |-> IF j = n + 1 THEN m + 1 ELSE ix[j]]
             pushed == Append(stack, [file |-> f, at |-> 0])
             frg == Append(fragments, g)
  <1>0. fragments \in Seq(FragmentType)
    BY DEF ResolverTypeOK, FragmentType
  <1>1. fragments \in Seq(FragmentType) /\ m \in Nat /\ n \in Nat
    <2> HIDE DEF FragmentType, Frame, pushed, frg, more
    <2> QED
      BY <1>0
  <1>2. [file |-> f, at |-> 0] \in Frame
    BY DEF Frame
  <1>3. /\ Len(pushed) = n + 1 /\ pushed[n + 1] = [file |-> f, at |-> 0]
        /\ \A j \in 1..n : pushed[j] = stack[j]
    BY <1>1, <1>2
  <1>4. /\ Len(frg) = m + 1 /\ frg[m + 1] = g
        /\ \A i \in 1..m : frg[i] = fragments[i]
    BY <1>1
  <1>5. /\ ix \in [1..n -> 1..m]
        /\ \A j, k \in 1..n : ix[j] = ix[k] => j = k
        /\ \A j \in 1..n : fragments[ix[j]].file = stack[j].file /\ fragments[ix[j]].depth = j - 1
    BY DEF Places
  <1>6. /\ more[n + 1] = m + 1 /\ \A j \in 1..n : more[j] = ix[j] /\ ix[j] \in 1..m
        /\ more \in [1..n + 1 -> 1..m + 1]
    <2> HIDE DEF pushed, frg, n, m
    <2>1. \A j \in 1..n : ix[j] \in 1..m
      BY <1>5
    <2>2. \A j \in 1..n + 1 : j # n + 1 => j \in 1..n
      BY <1>1
    <2>3. 1..m \subseteq 1..m + 1 /\ m + 1 \in 1..m + 1 /\ n + 1 \in 1..n + 1
      BY <1>1
    <2>4. \A j \in 1..n : j # n + 1 /\ j \in 1..n + 1
      BY <1>1
    <2> QED
      BY <2>1, <2>2, <2>3, <2>4
  <1>7. pushed[n + 1].file = f /\ pushed[n + 1].at = 0
    BY <1>3
  <1> HIDE DEF more, pushed, frg, n, m
  <1>8. Places(pushed, frg, more)
    <2>1. ASSUME NEW j \in 1..n + 1, NEW k \in 1..n + 1, more[j] = more[k] PROVE j = k
      <3>1. \A i \in 1..n : more[i] = ix[i] /\ ix[i] # m + 1
        BY <1>1, <1>6
      <3>2. (j \in 1..n \/ j = n + 1) /\ (k \in 1..n \/ k = n + 1)
        BY <1>1
      <3> QED
        BY <2>1, <3>1, <3>2, <1>5, <1>6
    <2>2. ASSUME NEW j \in 1..n + 1
          PROVE  frg[more[j]].file = pushed[j].file /\ frg[more[j]].depth = j - 1
      <3>1. CASE j \in 1..n
        BY <3>1, <1>3, <1>4, <1>5, <1>6
      <3>2. CASE j = n + 1
        BY <3>2, <1>1, <1>4, <1>6, <1>7 DEF n
      <3> QED
        BY <3>1, <3>2, <1>1
    <2> QED
      BY <2>1, <2>2, <1>3, <1>4, <1>6 DEF Places
  <1>9. ASSUME NEW e \in (1..m + 1) \X Nat
        PROVE  e \in Followed(pushed, frg, more) <=> e \in Followed(stack, fragments, ix)
    <2>1. e[1] \in 1..m + 1 /\ e[2] \in Nat
      OBVIOUS
    <2>2. CASE e[1] = m + 1
      <3>1. Directives(f) \subseteq Nat \ {0}
        BY DirectivesType
      <3>2. e \notin Followed(stack, fragments, ix)
        BY <2>2, <1>1 DEF Followed, m
      <3>3. ASSUME e \in Followed(pushed, frg, more) PROVE FALSE
        <4>1. e[2] \in Directives(f)
          BY <3>3, <2>2, <1>4 DEF Followed
        <4>2. n + 1 \in 1..Len(pushed) /\ more[n + 1] = e[1]
          BY <1>1, <1>3, <1>6, <2>2
        <4>3. e[2] <= pushed[n + 1].at
          BY <3>3, <4>2 DEF Followed
        <4> QED
          BY <4>1, <4>3, <1>7, <3>1
      <3> QED
        BY <3>2, <3>3
    <2>3. CASE e[1] \in 1..m
      <3>1. frg[e[1]] = fragments[e[1]]
        BY <2>3, <1>4
      <3>2. (\A j \in 1..n + 1 : more[j] = e[1] => e[2] <= pushed[j].at)
               <=> (\A j \in 1..n : ix[j] = e[1] => e[2] <= stack[j].at)
        <4>1. more[n + 1] # e[1]
          BY <2>3, <1>1, <1>6
        <4>2. \A j \in 1..n : more[j] = ix[j] /\ pushed[j] = stack[j]
          BY <1>3, <1>6
        <4>3. 1..n + 1 = 1..n \cup {n + 1}
          BY <1>1
        <4> QED
          BY <4>1, <4>2, <4>3
      <3>3. e \in (1..Len(frg)) \X Nat /\ e \in (1..Len(fragments)) \X Nat
        BY <2>1, <2>3, <1>1, <1>4 DEF m
      <3> QED
        BY <3>1, <3>2, <3>3, <1>3 DEF Followed, n
    <2> QED
      BY <2>1, <2>2, <2>3, <1>1
  <1>10. Followed(pushed, frg, more) = Followed(stack, fragments, ix)
    <2>1. /\ Followed(pushed, frg, more) \subseteq (1..m + 1) \X Nat
          /\ Followed(stack, fragments, ix) \subseteq (1..m) \X Nat
      BY <1>4 DEF Followed, m
    <2>2. (1..m) \X Nat \subseteq (1..m + 1) \X Nat
      BY <1>1
    <2> QED
      BY <2>1, <2>2, <1>9
  <1> QED
    BY <1>8, <1>10 DEF n, m, more, pushed, frg

(* The frame on top has nothing ahead and is left.                         *)
LEMMA ReturnFollowed ==
    ASSUME ResolverTypeOK, frames # << >>, NEW ix, Places(frames, fragments, ix), Ahead = {}
    PROVE  LET rest == SubSeq(frames, 1, Len(frames) - 1)
               less == [j \in 1..Len(frames) - 1 |-> ix[j]]
           IN  /\ rest \in Seq(Frame) /\ Len(rest) = Len(frames) - 1
               /\ \A j \in 1..Len(frames) - 1 : rest[j] = frames[j]
               /\ Places(rest, fragments, less)
               /\ Followed(rest, fragments, less) = Followed(frames, fragments, ix)
  <1> DEFINE n == Len(frames)
             rest == SubSeq(frames, 1, n - 1)
             less == [j \in 1..n - 1 |-> ix[j]]
  <1>0. frames \in Seq(Frame)
    BY DEF ResolverTypeOK, Frame
  <1>1. frames \in Seq(Frame) /\ n \in Nat \ {0}
    <2> HIDE DEF Frame, rest, less
    <2> QED
      BY <1>0
  <1>2. frames[n] \in Frame /\ n \in 1..n
    BY <1>1
  <1>3. /\ rest \in Seq(Frame) /\ Len(rest) = n - 1
        /\ \A j \in 1..n - 1 : rest[j] = frames[j]
    <2> HIDE DEF Frame, less
    <2> HIDE DEF n
    <2>1. n - 1 \in Nat /\ \A i \in 1..n - 1 : i \in 1..n
      BY <1>1
    <2>2. \A i \in 1..n - 1 : frames[i] \in Frame
      BY <1>1, <2>1 DEF n
    <2>3. /\ rest \in Seq(Frame)
          /\ Len(rest) = IF 1 <= n - 1 THEN n - 1 - 1 + 1 ELSE 0
          /\ \A i \in 1..n - 1 - 1 + 1 : rest[i] = frames[1 + i - 1]
      BY <2>1, <2>2, SubSeqProperties
    <2> HIDE DEF rest
    <2>4. n - 1 - 1 + 1 = n - 1 /\ \A i \in 1..n - 1 : 1 + i - 1 = i
      BY <2>1
    <2> QED
      BY <2>1, <2>3, <2>4
  <1>4. /\ ix \in [1..n -> 1..Len(fragments)]
        /\ \A j, k \in 1..n : ix[j] = ix[k] => j = k
        /\ \A j \in 1..n : fragments[ix[j]].file = frames[j].file /\ fragments[ix[j]].depth = j - 1
    BY DEF Places
  <1>5. 1..n = 1..n - 1 \cup {n} /\ n \notin 1..n - 1
    BY <1>1
  <1>6. \A j \in 1..n - 1 : less[j] = ix[j]
    OBVIOUS
  <1>7. less \in [1..n - 1 -> 1..Len(fragments)]
    BY <1>4, <1>5
  <1> HIDE DEF n, rest, less
  <1>8. Places(rest, fragments, less)
    BY <1>3, <1>4, <1>5, <1>6, <1>7 DEF Places
  <1>9. \A k \in Directives(frames[n].file) : k <= frames[n].at
    <2>1. frames[n].at \in Nat /\ Directives(frames[n].file) \subseteq Nat
      BY <1>2, DirectivesType DEF Frame
    <2> QED
      BY <2>1 DEF Ahead, Top, n
  <1>10. ASSUME NEW e \in (1..Len(fragments)) \X Nat, e[2] \in Directives(fragments[e[1]].file)
         PROVE  (\A j \in 1..n - 1 : less[j] = e[1] => e[2] <= rest[j].at)
                   <=> (\A j \in 1..n : ix[j] = e[1] => e[2] <= frames[j].at)
    <2>1. ix[n] = e[1] => e[2] <= frames[n].at
      BY <1>2, <1>4, <1>9, <1>10
    <2> QED
      BY <2>1, <1>3, <1>5, <1>6
  <1>11. Followed(rest, fragments, less) = Followed(frames, fragments, ix)
    <2>1. 1..Len(rest) = 1..n - 1 /\ 1..Len(frames) = 1..n
      BY <1>3 DEF n
    <2> QED
      BY <1>10, <2>1, Zenon DEF Followed
  <1> QED
    BY <1>3, <1>8, <1>11 DEF n, rest, less

-----------------------------------------------------------------------------
(* A fragment that joins the project changes none that is in it.           *)
LEMMA IncludedKept ==
    ASSUME ResolverTypeOK, text' = text, NEW g \in FragmentType,
           fragments' = Append(fragments, g),
           \A i \in 1..Len(fragments) : Included(i),
           g.file \in Inside \cap Readable,
           \/ fragments = << >> /\ g.file = Root /\ g.depth = 0
           \/ /\ fragments # << >>
              /\ g.line \in Directives(g.parent) /\ text[g.parent][g.line].to = g.file
              /\ \E j \in 1..Len(fragments) :
                    fragments[j].file = g.parent /\ fragments[j].depth + 1 = g.depth
    PROVE  \A i \in 1..Len(fragments') : Included(i)'
  <1>1. fragments \in Seq(FragmentType)
    BY DEF ResolverTypeOK, FragmentType
  <1>2. /\ Len(fragments) \in Nat /\ Len(fragments') = Len(fragments) + 1
        /\ \A i \in 1..Len(fragments) : fragments'[i] = fragments[i]
        /\ fragments'[Len(fragments) + 1] = g
    <2> HIDE DEF FragmentType
    <2> QED
      BY <1>1
  <1>3. \A f : Directives(f)' = Directives(f)
    BY DEF Directives, IsDirective
  <1>4. ASSUME NEW i \in 1..Len(fragments) PROVE Included(i)'
    <2>1. \A j \in 1..i - 1 : j \in 1..Len(fragments)
      BY <1>2
    <2>2. Included(i) /\ fragments'[i] = fragments[i]
      BY <1>2
    <2>3. \A j \in 1..i - 1 : fragments'[j] = fragments[j]
      BY <2>1, <1>2
    <2> QED
      BY <2>2, <2>3, <1>3, Zenon DEF Included
  <1>5. ASSUME NEW n \in Nat, n = Len(fragments) + 1 PROVE Included(n)'
    <2>1. fragments'[n] = g
      BY <1>2, <1>5
    <2>2. CASE fragments = << >>
      <3>1. n = 1
        BY <2>2, <1>5
      <3> QED
        BY <2>1, <2>2, <3>1 DEF Included
    <2>3. CASE fragments # << >>
      <3>1. n # 1 /\ n - 1 = Len(fragments)
        BY <2>3, <1>1, <1>2, <1>5
      <3>2. PICK j \in 1..Len(fragments) :
                    fragments[j].file = g.parent /\ fragments[j].depth + 1 = g.depth
        BY <2>3
      <3>3. fragments'[j] = fragments[j] /\ j \in 1..n - 1
        BY <1>2, <3>1
      <3>4. g.line \in Directives(g.parent)' /\ text'[g.parent][g.line].to = g.file
        BY <2>3, <1>3
      <3> QED
        BY <3>1, <3>2, <3>3, <3>4, <2>1, Zenon DEF Included
    <2> QED
      BY <2>2, <2>3
  <1>6. /\ Len(fragments) + 1 \in Nat
        /\ \A i \in 1..Len(fragments') : i \in 1..Len(fragments) \/ i = Len(fragments) + 1
    BY <1>2
  <1>7. ASSUME NEW i \in 1..Len(fragments') PROVE Included(i)'
    <2>1. CASE i \in 1..Len(fragments)
      BY <2>1, <1>4
    <2>2. CASE i = Len(fragments) + 1
      BY <2>2, <1>5, <1>6
    <2> QED
      BY <2>1, <2>2, <1>6
  <1> QED
    BY <1>7

(* A call of resolve_file that has been counted as followed but has led to *)
(* nothing yet, on chain stack.                                            *)
LEMMA ResolveFileStep ==
    ASSUME ResolverTypeOK, NEW stack \in Seq(Frame), NEW ix,
           Len(stack) <= MAX_INCLUDE_DEPTH + 1,
           Len(fragments) <= visited,
           Distinct(stack),
           \A i \in 1..Len(fragments) : Included(i),
           Places(stack, fragments, ix),
           IsFiniteSet(Followed(stack, fragments, ix)),
           Cardinality(Followed(stack, fragments, ix))
              = Len(fragments) + Len(missing) + Len(cycles),
           NEW f \in Inside \cap Readable, NEW parent \in Files, NEW line \in Nat,
           \/ fragments = << >> /\ f = Root /\ stack = << >>
           \/ /\ fragments # << >>
              /\ line \in Directives(parent) /\ text[parent][line].to = f
              /\ \E j \in 1..Len(fragments) :
                    fragments[j].file = parent /\ fragments[j].depth + 1 = Len(stack),
           Len(fragments) <= MAX_TOTAL_FRAGMENTS,
           text' = text, missing' = missing,
           ResolveFile(f, parent, line, stack)
    PROVE  ResolverInv'
  <1>1. /\ fragments \in Seq(FragmentType) /\ Len(fragments) \in Nat
        /\ visited \in Nat /\ Len(stack) \in Nat
        /\ Len(missing) \in Nat /\ Len(cycles) \in Nat
        /\ f \in Files
        /\ cycles \in Seq([chain : Seq(Files), to : Files])
    <2>1. fragments \in Seq(FragmentType)
      BY DEF ResolverTypeOK, FragmentType
    <2>2. f \in Files
      BY ResolverAssumption
    <2>3. /\ visited \in Nat /\ missing \in Seq([in : Files, line : Nat, why : Reasons])
          /\ cycles \in Seq([chain : Seq(Files), to : Files])
      BY DEF ResolverTypeOK, Reasons
    <2>4. \A S : \A s \in Seq(S) : Len(s) \in Nat
      OBVIOUS
    <2> QED
      BY ONLY <2>1, <2>2, <2>3, <2>4, stack \in Seq(Frame), Zenon
  <1>2. MAX_INCLUDE_DEPTH \in Nat /\ MAX_TOTAL_FRAGMENTS \in Nat \ {0}
    BY ResolverAssumption
  <1>3. \A g : Directives(g)' = Directives(g)
    BY DEF Directives, IsDirective
  <1>4. CASE TooDeep(stack)
    <2>1. /\ outcome' = "failed" /\ frames' = << >>
          /\ fragments' = fragments /\ cycles' = cycles /\ visited' = visited
      BY <1>4 DEF TooDeep
    <2>2. ResolverTypeOK'
      <3>1. frames' \in Seq(Frame)
        BY <2>1
      <3> QED
        BY <2>1, <3>1 DEF ResolverTypeOK, Frame
    <2>3. \A i \in 1..Len(fragments') : Included(i)'
      BY <2>1, <1>3 DEF Included
    <2>4. Len(frames') = 0 /\ Distinct(frames)'
      BY <2>1 DEF Distinct
    <2> QED
      BY <1>1, <1>2, <2>1, <2>2, <2>3, <2>4 DEF ResolverInv, Bounded
  <1>5. CASE /\ Len(stack) <= MAX_INCLUDE_DEPTH /\ visited < MAX_TOTAL_FRAGMENTS
             /\ visited' = visited + 1 /\ outcome' = "resolving"
             /\ OnChain(f, stack)
             /\ cycles' = Append(cycles, [chain |-> [k \in 1..Len(stack) |-> stack[k].file], to |-> f])
             /\ frames' = stack /\ fragments' = fragments
    <2>1. [k \in 1..Len(stack) |-> stack[k].file] \in Seq(Files)
      <3>1. \A k \in 1..Len(stack) : stack[k] \in Frame
        OBVIOUS
      <3>2. \A k \in 1..Len(stack) : stack[k].file \in Files
        BY <3>1 DEF Frame
      <3> QED
        BY <3>2, <1>1
    <2>2. /\ cycles' \in Seq([chain : Seq(Files), to : Files])
          /\ Len(cycles') = Len(cycles) + 1
      <3> DEFINE c == [chain |-> [k \in 1..Len(stack) |-> stack[k].file], to |-> f]
                 C == [chain : Seq(Files), to : Files]
      <3>1. c \in C
        BY <2>1, <1>1
      <3> HIDE DEF c, C
      <3>2. cycles \in Seq(C)
        BY <1>1 DEF C
      <3>3. Append(cycles, c) \in Seq(C) /\ Len(Append(cycles, c)) = Len(cycles) + 1
        BY <3>1, <3>2
      <3> QED
        BY <3>3, <1>5 DEF c, C
    <2>3. ResolverTypeOK'
      <3>1. frames' \in Seq([file : Files, at : Nat]) /\ visited' \in Nat
        BY <1>1, <1>5 DEF Frame
      <3> QED
        BY <1>5, <2>2, <3>1 DEF ResolverTypeOK
    <2>4. \A i \in 1..Len(fragments') : Included(i)'
      BY <1>5, <1>3 DEF Included
    <2>5. Bounded' /\ Distinct(frames)'
      BY <1>1, <1>2, <1>5 DEF Bounded, Distinct
    <2>6. Followed(stack, fragments, ix)' = Followed(stack, fragments, ix)
      BY <1>3, <1>5, Zenon DEF Followed
    <2>7. Places(frames, fragments, ix)' /\ Accounted(frames, fragments, ix)'
      <3>1. Places(frames', fragments', ix)
        BY <1>5 DEF Places
      <3>2. Followed(frames, fragments, ix)' = Followed(stack, fragments, ix)
        BY <2>6, <1>3, <1>5, Zenon DEF Followed
      <3>3. IsFiniteSet(Followed(frames, fragments, ix)')
        BY <3>2
      <3>4. Cardinality(Followed(frames, fragments, ix)') + 1
               = Len(fragments') + Len(missing') + Len(cycles')
        BY <1>1, <1>5, <2>2, <3>2
      <3> QED
        BY <3>1, <3>3, <3>4 DEF Places, Accounted
    <2> QED
      BY <1>5, <2>3, <2>4, <2>5, <2>7 DEF ResolverInv
  <1>6. CASE /\ Len(stack) <= MAX_INCLUDE_DEPTH /\ visited < MAX_TOTAL_FRAGMENTS
             /\ visited' = visited + 1 /\ outcome' = "resolving"
             /\ ~OnChain(f, stack)
             /\ frames' = Append(stack, [file |-> f, at |-> 0])
             /\ fragments' = Append(fragments, Fragment(f, Len(stack), parent, line))
             /\ cycles' = cycles
    <2> DEFINE g == Fragment(f, Len(stack), parent, line)
               new == [file |-> f, at |-> 0]
    <2>1. /\ g \in FragmentType /\ g.file = f /\ g.depth = Len(stack)
          /\ g.parent = parent /\ g.line = line
      BY <1>1 DEF Fragment, FragmentType
    <2>2. new \in Frame /\ new.file = f
      BY <1>1 DEF Frame
    <2> HIDE DEF g, new
    <2>3. frames' = Append(stack, new) /\ fragments' = Append(fragments, g)
      BY <1>6 DEF g, new
    <2>4. /\ frames' \in Seq(Frame) /\ Len(frames') = Len(stack) + 1
          /\ \A j \in 1..Len(stack) : frames'[j] = stack[j]
          /\ frames'[Len(stack) + 1] = new
          /\ fragments' \in Seq(FragmentType) /\ Len(fragments') = Len(fragments) + 1
      <3> HIDE DEF Frame, FragmentType
      <3> QED
        BY <1>1, <2>1, <2>2, <2>3
    <2>5. ResolverTypeOK'
      <3>1. visited' \in Nat
        BY <1>1, <1>6
      <3> QED
        BY <1>6, <2>4, <3>1 DEF ResolverTypeOK, Frame, FragmentType
    <2>6. \A i \in 1..Len(fragments') : Included(i)'
      <3>1. \/ fragments = << >> /\ g.file = Root /\ g.depth = 0
            \/ /\ fragments # << >>
               /\ g.line \in Directives(g.parent) /\ text[g.parent][g.line].to = g.file
               /\ \E j \in 1..Len(fragments) :
                     fragments[j].file = g.parent /\ fragments[j].depth + 1 = g.depth
        <4>1. stack = << >> => Len(stack) = 0
          OBVIOUS
        <4> QED
          BY <2>1, <4>1, Zenon
      <3> QED
        BY <2>1, <2>3, <3>1, IncludedKept
    <2>7. Distinct(frames')
      <3>1. \A j \in 1..Len(stack) : stack[j].file # f
        BY <1>6 DEF OnChain
      <3>2. 1..Len(frames') = 1..Len(stack) \cup {Len(stack) + 1}
        BY <1>1, <2>4
      <3>3. \A j \in 1..Len(stack) : frames'[j].file = stack[j].file
        BY <2>4
      <3>4. frames'[Len(stack) + 1].file = f
        BY <2>2, <2>4
      <3>5. \A j, k \in 1..Len(stack) : stack[j].file = stack[k].file => j = k
        BY DEF Distinct
      <3> QED
        BY <3>1, <3>2, <3>3, <3>4, <3>5, Zenon DEF Distinct
    <2>8. Bounded'
      BY <1>1, <1>2, <1>6, <2>4 DEF Bounded
    <2>9. PICK w : /\ Places(Append(stack, new), Append(fragments, g), w)
                   /\ Followed(Append(stack, new), Append(fragments, g), w)
                         = Followed(stack, fragments, ix)
      BY <2>1, <1>1, PushFollowed DEF new
    <2>10. Followed(frames, fragments, w)' = Followed(stack, fragments, ix)
      <3>1. Followed(frames, fragments, w)' = Followed(frames', fragments', w)
        BY <1>3, Zenon DEF Followed
      <3> QED
        BY <2>3, <2>9, <3>1
    <2>11. Places(frames, fragments, w)' /\ Accounted(frames, fragments, w)'
      <3>1. Places(frames', fragments', w)
        BY <2>3, <2>9
      <3>2. IsFiniteSet(Followed(frames, fragments, w)')
        BY <2>10
      <3>3. Cardinality(Followed(frames, fragments, w)') + 1
               = Len(fragments') + Len(missing') + Len(cycles')
        BY <1>1, <1>6, <2>4, <2>10
      <3> QED
        BY <3>1, <3>2, <3>3 DEF Places, Accounted
    <2> QED
      BY <1>6, <2>5, <2>6, <2>7, <2>8, <2>11 DEF ResolverInv, Distinct
  <1> QED
    BY <1>4, <1>5, <1>6 DEF ResolveFile

LEMMA FollowStep == ResolverInv /\ Follow => ResolverInv'
  <1> SUFFICES ASSUME ResolverInv, Follow PROVE ResolverInv'
    OBVIOUS
  <1>1. /\ outcome = "resolving" /\ frames # << >> /\ text' = text
        /\ ResolverTypeOK /\ Bounded /\ Distinct(frames)
        /\ \A i \in 1..Len(fragments) : Included(i)
    BY DEF Follow, ResolverInv
  <1>2. PICK k \in Ahead :
          LET t == text[Top.file][k].to IN
          /\ \A j \in Ahead : k <= j
          /\ \/ /\ t = Nowhere \/ (~Blocked(t) /\ t \notin Readable)
                /\ Report(k, "not found")
                /\ frames' = Past(k)
                /\ UNCHANGED <<outcome, fragments, cycles, visited>>
             \/ /\ Blocked(t)
                /\ Report(k, "outside")
                /\ frames' = Past(k)
                /\ UNCHANGED <<outcome, fragments, cycles, visited>>
             \/ /\ t # Nowhere /\ ~Blocked(t) /\ t \in Readable
                /\ ResolveFile(t, Top.file, k, Past(k))
                /\ UNCHANGED missing
    BY DEF Follow
  <1>3. PICK ix : Places(frames, fragments, ix) /\ Accounted(frames, fragments, ix)
    BY <1>1 DEF ResolverInv
  <1> DEFINE n == Len(frames)
             stack == Past(k)
             S == Followed(frames, fragments, ix)
  <1>4. /\ stack \in Seq(Frame) /\ Len(stack) = n
        /\ Distinct(stack) /\ Places(stack, fragments, ix)
        /\ <<ix[n], k>> \notin S
        /\ Followed(stack, fragments, ix) = S \cup {<<ix[n], k>>}
    BY <1>1, <1>2, <1>3, PastFollowed
  <1>5. IsFiniteSet(S) /\ Cardinality(S) + 1 = Len(fragments) + Len(missing) + Len(cycles)
    BY <1>3 DEF Accounted
  <1>6. /\ IsFiniteSet(Followed(stack, fragments, ix))
        /\ Cardinality(Followed(stack, fragments, ix)) = Cardinality(S) + 1
    <2> HIDE DEF S, n, stack
    <2>1. IsFiniteSet(S \cup {<<ix[n], k>>})
      BY <1>5, FS_AddElement
    <2>2. Cardinality(S \cup {<<ix[n], k>>}) = Cardinality(S) + 1
      BY <1>4, <1>5, FS_AddElement
    <2> QED
      BY <1>4, <2>1, <2>2
  <1>7. /\ Len(fragments) \in Nat /\ n \in Nat /\ n # 0
        /\ frames \in Seq(Frame)
        /\ Len(missing) \in Nat /\ Len(cycles) \in Nat
    <2>1. frames \in Seq(Frame)
      BY <1>1 DEF ResolverTypeOK, Frame
    <2>2. n \in Nat /\ n # 0
      <3> HIDE DEF Frame, S, stack
      <3> QED
        BY <2>1, <1>1
    <2>3. Len(fragments) \in Nat /\ Len(missing) \in Nat /\ Len(cycles) \in Nat
      BY <1>1, Lengths
    <2> QED
      BY <2>1, <2>2, <2>3
  <1> HIDE DEF n, stack, S
  <1>8. n \in 1..Len(frames) /\ ix[n] \in 1..Len(fragments)
        /\ fragments[ix[n]].file = frames[n].file /\ fragments[ix[n]].depth = n - 1
    BY <1>3, <1>7 DEF Places, n
  <1>9. /\ Top.file \in Files /\ k \in Directives(Top.file) /\ k \in Nat
        /\ text[Top.file][k].to \in Files \cup {Nowhere}
    <2>1. frames[n] \in Frame /\ Top = frames[n]
      BY <1>7, <1>8 DEF Top, n
    <2>2. Top.file \in Files
      BY <2>1 DEF Frame
    <2> QED
      BY <1>1, <2>2, DirectivesType DEF Ahead
  <1>10. \A f : Directives(f)' = Directives(f)
    BY <1>1 DEF Directives, IsDirective
  <1>11. ASSUME NEW why \in Reasons, Report(k, why), frames' = stack,
                UNCHANGED <<outcome, fragments, cycles, visited>>
         PROVE  ResolverInv'
    <2> DEFINE M == [in : Files, line : Nat, why : Reasons]
               r == [in |-> Top.file, line |-> k, why |-> why]
    <2>1. r \in M /\ missing \in Seq(M)
      BY <1>1, <1>9 DEF ResolverTypeOK, Reasons
    <2>2. missing' \in Seq(M) /\ Len(missing') = Len(missing) + 1
      <3>1. missing' = Append(missing, r)
        BY <1>11 DEF Report
      <3> HIDE DEF r, M
      <3> QED
        BY <2>1, <3>1, Grows
    <2>3. ResolverTypeOK'
      <3>1. frames' \in Seq(Frame)
        BY <1>4, <1>11
      <3> QED
        BY <1>1, <1>11, <2>2, <3>1 DEF ResolverTypeOK, Frame, Reasons
    <2>4. Bounded' /\ Distinct(frames)'
      BY <1>1, <1>4, <1>11 DEF Bounded, Distinct, n
    <2>5. \A i \in 1..Len(fragments') : Included(i)'
      BY <1>1, <1>10, <1>11 DEF Included
    <2>6. Places(frames, fragments, ix)'
      BY <1>4, <1>11 DEF Places
    <2>7. Followed(frames, fragments, ix)' = Followed(stack, fragments, ix)
      BY <1>10, <1>11, Zenon DEF Followed
    <2>8. Accounted(frames, fragments, ix)'
      <3>1. IsFiniteSet(Followed(frames, fragments, ix)')
        BY <1>6, <2>7
      <3>2. Cardinality(Followed(frames, fragments, ix)') + 1
               = Len(fragments') + Len(missing') + Len(cycles')
        <4>1. Len(fragments') = Len(fragments) /\ Len(cycles') = Len(cycles)
          BY <1>11
        <4>2. Cardinality(Followed(frames, fragments, ix)') = Cardinality(S) + 1
          BY <1>6, <2>7
        <4>3. Cardinality(S) \in Nat
          BY <1>5, FS_CardinalityType
        <4>4. (Cardinality(S) + 1) + 1 = Len(fragments) + (Len(missing) + 1) + Len(cycles)
          BY <1>5, <1>7, <4>3
        <4> QED
          BY <2>2, <4>1, <4>2, <4>4, Zenon
      <3> QED
        BY <3>1, <3>2 DEF Accounted
    <2> QED
      BY <1>1, <1>11, <2>3, <2>4, <2>5, <2>6, <2>8 DEF ResolverInv
  <1>12. ASSUME NEW f, f = text[Top.file][k].to, f # Nowhere, ~Blocked(f), f \in Readable,
                ResolveFile(f, Top.file, k, stack), UNCHANGED missing
         PROVE  ResolverInv'
    <2>1. f \in Inside \cap Readable
      BY <1>12 DEF Blocked
    <2>2. /\ fragments # << >>
          /\ ix[n] \in 1..Len(fragments)
          /\ fragments[ix[n]].file = Top.file /\ fragments[ix[n]].depth + 1 = Len(stack)
      <3>1. fragments # << >>
        BY <1>8
      <3>2. n - 1 + 1 = n
        BY <1>7
      <3> QED
        BY <1>4, <1>8, <3>1, <3>2 DEF Top, n
    <2>3. Len(fragments) <= visited /\ Len(fragments) <= MAX_TOTAL_FRAGMENTS
          /\ Len(stack) <= MAX_INCLUDE_DEPTH + 1
      BY <1>1, <1>4 DEF Bounded, n
    <2>4. Cardinality(Followed(stack, fragments, ix))
              = Len(fragments) + Len(missing) + Len(cycles)
      BY <1>5, <1>6
    <2>5. /\ fragments # << >>
          /\ k \in Directives(Top.file) /\ text[Top.file][k].to = f
          /\ \E j \in 1..Len(fragments) :
                 fragments[j].file = Top.file /\ fragments[j].depth + 1 = Len(stack)
      BY <1>9, <1>12, <2>2
    <2> QED
      BY <1>1, <1>4, <1>6, <1>9, <1>12, <2>1, <2>3, <2>4, <2>5, ResolveFileStep
  <1> QED
    <2>1. "not found" \in Reasons /\ "outside" \in Reasons
      BY DEF Reasons
    <2> QED
      BY <1>2, <1>11, <1>12, <2>1 DEF stack

LEMMA PeekStep == ResolverInv /\ Peek => ResolverInv'
  <1> SUFFICES ASSUME ResolverInv, Peek PROVE ResolverInv'
    OBVIOUS
  <1>1. /\ outcome = "peek" /\ text' = text /\ missing' = missing
        /\ ResolverTypeOK /\ Bounded
        /\ frames = << >> /\ fragments = << >> /\ missing = << >> /\ cycles = << >>
    BY DEF Peek, ResolverInv
  <1>2. /\ Root \in Inside \cap Readable /\ Root \in Files
        /\ MAX_INCLUDE_DEPTH \in Nat /\ MAX_TOTAL_FRAGMENTS \in Nat \ {0}
    BY ResolverAssumption
  <1>3. ASSUME outcome' = "single", fragments' = <<Fragment(Root, 0, Root, 0)>>,
               UNCHANGED <<frames, cycles, visited>>
        PROVE  ResolverInv'
    <2> DEFINE g == Fragment(Root, 0, Root, 0)
    <2>1. g \in FragmentType /\ g.file = Root /\ g.depth = 0
      BY <1>2 DEF Fragment, FragmentType
    <2> HIDE DEF g
    <2>2. fragments' = Append(fragments, g) /\ Len(fragments') = 1
          /\ fragments' \in Seq(FragmentType)
      <3>1. fragments' = <<g>>
        BY <1>3 DEF g
      <3> HIDE DEF FragmentType
      <3> QED
        BY <1>1, <2>1, <3>1
    <2>3. \A i \in 1..Len(fragments') : Included(i)'
      <3>1. \A i \in 1..Len(fragments) : Included(i)
        BY DEF ResolverInv
      <3>2. g.file \in Inside \cap Readable
        BY <1>2, <2>1
      <3> QED
        BY <1>1, <2>1, <2>2, <3>1, <3>2, IncludedKept
    <2>4. ResolverTypeOK'
      BY <1>1, <1>3, <2>2 DEF ResolverTypeOK, FragmentType
    <2>5. frames' = << >> /\ Len(frames') = 0 /\ Distinct(frames)'
      BY <1>1, <1>3 DEF Distinct
    <2>6. Bounded'
      BY <1>2, <1>3, <2>2, <2>5 DEF Bounded
    <2> QED
      BY <1>3, <2>3, <2>4, <2>5, <2>6 DEF ResolverInv
  <1>4. ASSUME ResolveFile(Root, Root, 0, << >>) PROVE ResolverInv'
    <2>1. << >> \in Seq(Frame) /\ Len(<< >>) = 0 /\ 1..0 = {}
      OBVIOUS
    <2>2. Places(<< >>, fragments, << >>) /\ Distinct(<< >>)
      <3>1. << >> \in [1..0 -> 1..Len(fragments)]
        BY <1>1, <2>1
      <3> QED
        BY <2>1, <3>1 DEF Places, Distinct
    <2>3. Followed(<< >>, fragments, << >>) = {}
      BY <1>1 DEF Followed
    <2>4. IsFiniteSet({}) /\ Cardinality({}) = 0
      BY FS_EmptySet
    <2>5. /\ Len(fragments) = 0 /\ Len(missing) = 0 /\ Len(cycles) = 0
          /\ visited \in Nat
      BY <1>1 DEF ResolverTypeOK
    <2>6. \A i \in 1..Len(fragments) : Included(i)
      BY DEF ResolverInv
    <2>7. /\ IsFiniteSet(Followed(<< >>, fragments, << >>))
          /\ Cardinality(Followed(<< >>, fragments, << >>))
                = Len(fragments) + Len(missing) + Len(cycles)
      <3>1. Len(fragments) + Len(missing) + Len(cycles) = 0
        BY <2>5
      <3> QED
        BY <2>3, <2>4, <3>1, Zenon
    <2>8. /\ Len(<< >>) <= MAX_INCLUDE_DEPTH + 1 /\ Len(fragments) <= visited
          /\ Len(fragments) <= MAX_TOTAL_FRAGMENTS
      BY <1>2, <2>1, <2>5
    <2>9. 0 \in Nat
      OBVIOUS
    <2> QED
      BY <1>1, <1>2, <1>4, <2>1, <2>2, <2>6, <2>7, <2>8, <2>9, ResolveFileStep
  <1> QED
    BY <1>3, <1>4 DEF Peek

LEMMA ReturnStep == ResolverInv /\ Return => ResolverInv'
  <1> SUFFICES ASSUME ResolverInv, Return PROVE ResolverInv'
    OBVIOUS
  <1>1. /\ outcome = "resolving" /\ frames # << >> /\ Ahead = {}
        /\ frames' = SubSeq(frames, 1, Len(frames) - 1)
        /\ outcome' = IF Len(frames) = 1 THEN "resolved" ELSE "resolving"
        /\ UNCHANGED <<text, fragments, missing, cycles, visited>>
        /\ ResolverTypeOK /\ Bounded /\ Distinct(frames)
        /\ \A i \in 1..Len(fragments) : Included(i)
    BY DEF Return, ResolverInv
  <1>2. PICK ix : Places(frames, fragments, ix) /\ Accounted(frames, fragments, ix)
    BY <1>1 DEF ResolverInv
  <1>3. PICK w : /\ frames' \in Seq(Frame) /\ Len(frames') = Len(frames) - 1
                 /\ \A j \in 1..Len(frames) - 1 : frames'[j] = frames[j]
                 /\ Places(frames', fragments, w)
                 /\ Followed(frames', fragments, w) = Followed(frames, fragments, ix)
    BY <1>1, <1>2, ReturnFollowed
  <1>4. \A f : Directives(f)' = Directives(f)
    BY <1>1 DEF Directives, IsDirective
  <1>5. Len(frames) \in Nat /\ MAX_INCLUDE_DEPTH \in Nat
    BY <1>1, Lengths, ResolverAssumption
  <1>6. ResolverTypeOK'
    BY <1>1, <1>3 DEF ResolverTypeOK, Frame
  <1>7. Bounded'
    BY <1>1, <1>3, <1>5 DEF Bounded
  <1>8. Distinct(frames)'
    <2>1. \A j \in 1..Len(frames) - 1 : j \in 1..Len(frames)
      BY <1>5
    <2> QED
      BY <1>1, <1>3, <2>1, Zenon DEF Distinct
  <1>9. \A i \in 1..Len(fragments') : Included(i)'
    BY <1>1, <1>4 DEF Included
  <1>10. Places(frames, fragments, w)' /\ Accounted(frames, fragments, w)'
    <2>1. Followed(frames, fragments, w)' = Followed(frames, fragments, ix)
      <3>1. Followed(frames, fragments, w)' = Followed(frames', fragments, w)
        BY <1>1, <1>4, Zenon DEF Followed
      <3> QED
        BY <1>3, <3>1
    <2> QED
      BY <1>1, <1>2, <1>3, <2>1 DEF Places, Accounted
  <1>11. outcome' # "resolving" => frames' = << >>
    <2>1. Len(frames) = 1 => Len(frames') = 0
      BY <1>3
    <2>2. Len(frames') = 0 => frames' = << >>
      <3> HIDE DEF Frame
      <3> QED
        BY <1>3
    <2> QED
      BY <1>1, <2>1, <2>2
  <1> QED
    BY <1>1, <1>6, <1>7, <1>8, <1>9, <1>10, <1>11 DEF ResolverInv

LEMMA InitResolver == PipelineInit => ResolverInv
  <1> SUFFICES ASSUME PipelineInit PROVE ResolverInv
    OBVIOUS
  <1>1. /\ text \in Projects /\ outcome = "peek" /\ frames = << >> /\ fragments = << >>
        /\ missing = << >> /\ cycles = << >> /\ visited = 0
    BY DEF PipelineInit, SourceInit, ResolverInit
  <1>2. text \in [Files -> Seq(Elements)] /\ MAX_INCLUDE_DEPTH \in Nat /\ MAX_TOTAL_FRAGMENTS \in Nat
    BY <1>1, ResolverAssumption
  <1>3. ResolverTypeOK
    BY <1>1, <1>2 DEF ResolverTypeOK
  <1>4. Len(frames) = 0 /\ Len(fragments) = 0
    BY <1>1
  <1> QED
    BY <1>1, <1>2, <1>3, <1>4 DEF ResolverInv, Bounded, Distinct

LEMMA ResolverStep == ResolverInv /\ [PipelineNext]_pipelineVars => ResolverInv'
  <1> SUFFICES ASSUME ResolverInv, [PipelineNext]_pipelineVars PROVE ResolverInv'
    OBVIOUS
  <1>1. ResolverNext \/ UNCHANGED resolverVars
    BY DEF PipelineNext, pipelineVars, sourceVars, resolverVars, Parse, SourceNext, Resolve
  <1>2. ASSUME UNCHANGED resolverVars PROVE ResolverInv'
    <2>1. UNCHANGED <<text, outcome, frames, fragments, missing, cycles, visited>>
      BY <1>2 DEF resolverVars
    <2>2. ResolverTypeOK' /\ Bounded' /\ Distinct(frames)'
      BY <2>1 DEF ResolverInv, ResolverTypeOK, Bounded, Distinct
    <2>3. \A f : Directives(f)' = Directives(f)
      BY <2>1 DEF Directives, IsDirective
    <2>4. \A i \in 1..Len(fragments') : Included(i)'
      BY <2>1, <2>3 DEF ResolverInv, Included
    <2>5. ASSUME NEW ix, Places(frames, fragments, ix), Accounted(frames, fragments, ix)
          PROVE  Places(frames, fragments, ix)' /\ Accounted(frames, fragments, ix)'
      <3>1. Followed(frames, fragments, ix)' = Followed(frames, fragments, ix)
        BY <2>1, <2>3, Zenon DEF Followed
      <3> QED
        BY <2>1, <2>5, <3>1 DEF Places, Accounted
    <2> QED
      BY <2>1, <2>2, <2>4, <2>5 DEF ResolverInv
  <1> QED
    BY <1>1, <1>2, PeekStep, FollowStep, ReturnStep DEF ResolverNext

LEMMA ResolverAlways == PipelineSpec => []ResolverInv
  BY InitResolver, ResolverStep, PTL DEF PipelineSpec

(* On no project, however its files include each other and whatever the    *)
(* limits are, does the chain of files under way grow past the depth limit *)
(* or come back to a file it is in, nor the project past the fragment      *)
(* limit (Resolver::resolve_file).                                         *)
THEOREM ChainAlwaysBounded == PipelineSpec => []ChainBounded
  <1>1. ResolverInv => ChainBounded
    BY DEF ResolverInv, Bounded, Distinct, ChainBounded
  <1> QED
    BY <1>1, ResolverAlways, PTL

(* On every project, each fragment is a file of the root's directory that  *)
(* an earlier fragment includes at that line, and when it is resolved each *)
(* include of each fragment is accounted for exactly once                  *)
(* (resolve_latex_project).                                                *)
THEOREM IncludesAlwaysAccounted == PipelineSpec => []IncludesAccounted
  <1>1. ResolverInv => IncludesAccounted
    <2> SUFFICES ASSUME ResolverInv, outcome = "resolved"
                 PROVE  Cardinality(UNION {{<<i, k>> : k \in Directives(fragments[i].file)} :
                                             i \in 1..Len(fragments)})
                           = Len(fragments) - 1 + Len(missing) + Len(cycles)
      BY DEF ResolverInv, IncludesAccounted
    <2>1. PICK ix : Accounted(frames, fragments, ix)
      BY DEF ResolverInv
    <2>2. frames = << >> /\ Len(frames) = 0
      BY DEF ResolverInv
    <2> DEFINE U == UNION {{<<i, k>> : k \in Directives(fragments[i].file)} :
                              i \in 1..Len(fragments)}
    <2>3. ResolverTypeOK /\ fragments \in Seq(FragmentType)
      BY DEF ResolverInv, ResolverTypeOK, FragmentType
    <2>4. \A i \in 1..Len(fragments) : Directives(fragments[i].file) \subseteq Nat
      <3>1. \A i \in 1..Len(fragments) : fragments[i] \in FragmentType
        BY <2>3
      <3>2. \A i \in 1..Len(fragments) : fragments[i].file \in Files
        BY <3>1 DEF FragmentType
      <3> QED
        BY <2>3, <3>2, DirectivesType
    <2>5. Followed(frames, fragments, ix) = U
      <3>1. Followed(frames, fragments, ix)
              = {e \in (1..Len(fragments)) \X Nat : e[2] \in Directives(fragments[e[1]].file)}
        BY <2>2 DEF Followed
      <3>2. ASSUME NEW e \in (1..Len(fragments)) \X Nat, e[2] \in Directives(fragments[e[1]].file)
            PROVE  e \in U
        <4>1. e = <<e[1], e[2]>> /\ e[1] \in 1..Len(fragments)
          OBVIOUS
        <4>2. e \in {<<e[1], k>> : k \in Directives(fragments[e[1]].file)}
          BY <3>2, <4>1
        <4>3. {<<e[1], k>> : k \in Directives(fragments[e[1]].file)}
                \in {{<<i, k>> : k \in Directives(fragments[i].file)} : i \in 1..Len(fragments)}
          BY <4>1, Zenon
        <4> QED
          BY <4>2, <4>3, Zenon
      <3>3. ASSUME NEW e \in U
            PROVE  e \in (1..Len(fragments)) \X Nat /\ e[2] \in Directives(fragments[e[1]].file)
        <4>1. PICK i \in 1..Len(fragments) : e \in {<<i, k>> : k \in Directives(fragments[i].file)}
          OBVIOUS
        <4>2. PICK k \in Directives(fragments[i].file) : e = <<i, k>>
          BY <4>1
        <4>3. k \in Nat
          BY <2>4
        <4> QED
          BY <4>2, <4>3
      <3> HIDE DEF U
      <3> QED
        BY <3>1, <3>2, <3>3
    <2>6. Cardinality(U) + 1 = Len(fragments) + Len(missing) + Len(cycles)
      BY <2>1, <2>5 DEF Accounted
    <2>7. Cardinality(U) \in Nat
      BY <2>1, <2>5, FS_CardinalityType DEF Accounted
    <2> HIDE DEF U
    <2> QED
      BY <2>3, <2>6, <2>7, Lengths DEF U
  <1> QED
    BY <1>1, ResolverAlways, PTL

-----------------------------------------------------------------------------
IsSequence(s) == \E S : s \in Seq(S)

LEMMA Joined ==
    ASSUME NEW s, NEW t, IsSequence(s), IsSequence(t)
    PROVE  IsSequence(s \o t)
  <1>1. PICK S : s \in Seq(S)
    BY DEF IsSequence
  <1>2. PICK T : t \in Seq(T)
    BY DEF IsSequence
  <1>3. s \in Seq(S \cup T) /\ t \in Seq(S \cup T)
    BY <1>1, <1>2
  <1>4. s \o t \in Seq(S \cup T)
    BY <1>3
  <1> QED
    BY <1>4 DEF IsSequence

(* The places of the prose that may be quoted; of a PDF, all.              *)
Places0 == (1..Len(fragments)) \X Nat
Quotable ==
    IF format = "pdf" THEN Nat \X Nat ELSE {e \in Places0 : Says(e).kind = "prose"}

Quoting(ps) == \E S : ps \in Seq(S) /\ \A p \in S : p.lines \in Seq(Quotable)

SectionOK(sec) == \E id, ps : sec = [id |-> id, paragraphs |-> ps] /\ Quoting(ps)

(* Paragraphs consist of prose of the fragments only, at every stage.      *)
DocumentInv ==
    /\ format \in {"latex", "pdf", "other"}
    /\ stage \in {"source", "merge", "pages", "done", "error", "panic"}
    /\ stage = "merge" => format = "latex"
    /\ stage = "pages" => format = "pdf"
    /\ stage = "source" => pending = << >> /\ current = NoSection /\ sections = << >>
    /\ at \in (Nat \ {0}) \X (Nat \ {0})
    /\ pending \in Seq(Places0)
    /\ SectionOK(current)
    /\ \E S : sections \in Seq(S) /\ \A sec \in S : SectionOK(sec)
    /\ IsSequence(claims) /\ IsSequence(references)

LEMMA NothingQuoted ==
    ASSUME NEW Q
    PROVE  \E S : << >> \in Seq(S) /\ \A p \in S : p.lines \in Seq(Q)
  <1> DEFINE none == {}
  <1>1. << >> \in Seq(none) /\ \A p \in none : p.lines \in Seq(Q)
    OBVIOUS
  <1> HIDE DEF none
  <1> QED
    BY <1>1

LEMMA EmptySectionOK == SectionOK(NoSection) /\ SectionOK([id |-> <<"front", 0>>, paragraphs |-> << >>])
  <1>1. Quoting(<< >>)
    BY NothingQuoted, Zenon DEF Quoting
  <1> QED
    BY <1>1 DEF SectionOK, NoSection

(* Of the open lines the prose is left.                                    *)
LEMMA CleanedType ==
    ASSUME format # "pdf", NEW par \in Seq(Places0)
    PROVE  Cleaned(par) \in Seq(Quotable)
  <1> DEFINE piece(n) == IF Says(par[n]).kind = "prose" THEN <<par[n]>> ELSE << >>
             seqs == [n \in 1..Len(par) |-> piece(n)]
  <1>1. Len(par) \in Nat /\ \A n \in 1..Len(par) : par[n] \in Places0
    OBVIOUS
  <1>2. \A n \in 1..Len(par) : piece(n) \in Seq(Quotable)
    <2> SUFFICES ASSUME NEW n \in 1..Len(par) PROVE piece(n) \in Seq(Quotable)
      BY Zenon
    <2>1. CASE Says(par[n]).kind = "prose"
      <3>1. par[n] \in Quotable
        BY <1>1, <2>1 DEF Quotable
      <3> QED
        BY <2>1, <3>1
    <2>2. CASE Says(par[n]).kind # "prose"
      BY <2>2
    <2> QED
      BY <2>1, <2>2
  <1> HIDE DEF piece
  <1>3. seqs \in Seq(Seq(Quotable))
    BY <1>1, <1>2
  <1>4. Cleaned(par) = Concat(seqs)
    BY Zenon DEF Cleaned, piece
  <1> QED
    BY <1>3, <1>4, ConcatType

LEMMA FlushedOK ==
    ASSUME DocumentInv, format # "pdf"
    PROVE  SectionOK(Flushed)
  <1>1. SectionOK(Opened)
    BY EmptySectionOK DEF Opened, DocumentInv
  <1>2. PICK id, ps : Opened = [id |-> id, paragraphs |-> ps] /\ Quoting(ps)
    BY <1>1 DEF SectionOK
  <1>3. Open.lines \in Seq(Quotable)
    BY CleanedType DEF Open, DocumentInv
  <1>4. Quoting(Append(ps, Open))
    <2>1. PICK S : ps \in Seq(S) /\ \A p \in S : p.lines \in Seq(Quotable)
      BY <1>2 DEF Quoting
    <2> HIDE DEF Quotable
    <2>2. ps \in Seq(S \cup {Open}) /\ Open \in S \cup {Open}
      BY <2>1
    <2>3. Append(ps, Open) \in Seq(S \cup {Open})
      BY <2>2, Grows
    <2> QED
      BY <1>3, <2>1, <2>3 DEF Quoting
  <1>5. [Opened EXCEPT !.paragraphs = Append(@, Open)] = [id |-> id, paragraphs |-> Append(ps, Open)]
    BY <1>2
  <1>6. SectionOK([Opened EXCEPT !.paragraphs = Append(@, Open)])
    BY <1>4, <1>5 DEF SectionOK
  <1> QED
    BY <1>6 DEF Flushed, DocumentInv

LEMMA ClosedOK ==
    ASSUME DocumentInv, NEW sec, SectionOK(sec)
    PROVE  \E S : Closed(sec) \in Seq(S) /\ \A s \in S : SectionOK(s)
  <1>1. PICK S : sections \in Seq(S) /\ \A s \in S : SectionOK(s)
    BY DEF DocumentInv
  <1>2. sections \in Seq(S \cup {sec}) /\ sec \in S \cup {sec}
    BY <1>1
  <1>3. Append(sections, sec) \in Seq(S \cup {sec})
    BY <1>2, Grows
  <1> QED
    BY <1>1, <1>2, <1>3 DEF Closed

LEMMA FlushSequences ==
    ASSUME DocumentInv, Flush
    PROVE  IsSequence(claims') /\ pending' = << >>
  <1>1. IsSequence(<< >>)
    <2>1. << >> \in Seq({})
      OBVIOUS
    <2> QED
      BY <2>1 DEF IsSequence
  <1>2. \A x : IsSequence(<<x>>)
    <2> SUFFICES ASSUME NEW x PROVE IsSequence(<<x>>)
      OBVIOUS
    <2>1. <<x>> \in Seq({x})
      OBVIOUS
    <2> QED
      BY <2>1 DEF IsSequence
  <1>3. IsSequence(ClaimsIn(Cleaned(pending)))
    BY <1>1, <1>2, Zenon DEF ClaimsIn
  <1>4. IsSequence(claims)
    BY DEF DocumentInv
  <1>5. claims' = claims \o IF Kept THEN ClaimsIn(Cleaned(pending)) ELSE << >>
    BY Zenon DEF Flush
  <1>6. IsSequence(IF Kept THEN ClaimsIn(Cleaned(pending)) ELSE << >>)
    BY <1>1, <1>3, Zenon
  <1>7. IsSequence(claims')
    BY <1>4, <1>5, <1>6, Joined, Zenon
  <1> QED
    BY <1>7 DEF Flush

LEMMA ReferencesType ==
    ASSUME ResolverTypeOK, NEW f \in Files
    PROVE  ReferencesIn(f) \in Seq(Range(ReferencesIn(f))) /\ Len(ReferencesIn(f)) \in Nat
  <1> DEFINE bibs == {k \in 1..Len(text[f]) : text[f][k].kind = "bibliography" /\ IsFirst(f, k)}
             entries == IF bibs = {} THEN << >> ELSE text[f][CHOOSE k \in bibs : TRUE].keys
             more == ReferencesIn(f)
  <1>1. text[f] \in Seq(Elements)
    BY DEF ResolverTypeOK
  <1>2. Len(entries) \in Nat
    <2>1. CASE bibs = {}
      BY <2>1
    <2>2. CASE bibs # {}
      <3>1. (CHOOSE k \in bibs : TRUE) \in bibs
        BY <2>2
      <3>2. \A k \in bibs : text[f][k] \in Elements
        BY <1>1
      <3>3. \A e \in Elements : Len(e.keys) \in Nat
        BY DEF Elements
      <3> HIDE DEF bibs
      <3>4. entries = text[f][CHOOSE k \in bibs : TRUE].keys
        BY <2>2
      <3> QED
        BY <3>1, <3>2, <3>3, <3>4, Zenon
    <2> QED
      BY <2>1, <2>2
  <1>3. more = [n \in 1..Len(entries) |-> IF entries[n] = NoKey THEN <<"R", n>> ELSE <<"key", entries[n]>>]
    BY Zenon DEF ReferencesIn
  <1> HIDE DEF entries, more
  <1>4. DOMAIN more = 1..Len(entries) /\ more = [n \in 1..Len(entries) |-> more[n]]
    BY <1>3
  <1>5. \A n \in 1..Len(entries) : more[n] \in Range(more)
    BY <1>4 DEF Range
  <1>6. more \in [1..Len(entries) -> Range(more)]
    BY <1>4, <1>5
  <1> QED
    BY <1>2, <1>6 DEF more

LEMMA ReferencesOK ==
    ASSUME ResolverInv, DocumentInv, at[1] <= Len(fragments)
    PROVE  IsSequence(MergeReferences(references, ReferencesIn(FileOf(at[1]))))
  <1> DEFINE f == FileOf(at[1])
             more == ReferencesIn(f)
             known(n) == Range(references) \cup {more[m] : m \in 1..n - 1}
             seqs == [n \in 1..Len(more) |-> IF more[n] \in known(n) THEN << >> ELSE <<more[n]>>]
  <1>1. f \in Files
    <2>1. fragments \in Seq(FragmentType)
      BY DEF ResolverInv, ResolverTypeOK, FragmentType
    <2>2. at[1] \in 1..Len(fragments)
      BY <2>1 DEF DocumentInv
    <2>3. fragments[at[1]] \in FragmentType
      BY <2>1, <2>2
    <2> QED
      BY <2>3 DEF FileOf, FragmentType
  <1> HIDE DEF f
  <1>2. more \in Seq(Range(more)) /\ Len(more) \in Nat
    BY <1>1, ReferencesType DEF ResolverInv
  <1> HIDE DEF more
  <1>3. IsSequence(more) /\ IsSequence(references)
    BY <1>2 DEF IsSequence, DocumentInv
  <1>4. IsSequence(Concat(seqs))
    <2> DEFINE piece(n) == IF more[n] \in known(n) THEN << >> ELSE <<more[n]>>
    <2>1. \A n \in 1..Len(more) : more[n] \in Range(more)
      BY <1>2
    <2> HIDE DEF known
    <2>2. \A n \in 1..Len(more) : piece(n) \in Seq(Range(more))
      BY <2>1
    <2> HIDE DEF piece
    <2>3. [n \in 1..Len(more) |-> piece(n)] \in Seq(Seq(Range(more)))
      BY <1>2, <2>2
    <2>4. seqs = [n \in 1..Len(more) |-> piece(n)]
      BY Zenon DEF piece
    <2> HIDE DEF seqs
    <2>5. Concat(seqs) \in Seq(Range(more))
      BY <2>3, <2>4, ConcatType
    <2> QED
      BY <2>5 DEF IsSequence
  <1>5. MergeReferences(references, more) = IF ~Located THEN references \o more ELSE references \o Concat(seqs)
    BY Zenon DEF MergeReferences
  <1> HIDE DEF seqs
  <1>6. IsSequence(MergeReferences(references, more))
    BY <1>3, <1>4, <1>5, Joined, Zenon
  <1> QED
    BY <1>6 DEF more, f

LEMMA QuotableKept ==
    ASSUME text' = text, fragments' = fragments, format' = format
    PROVE  /\ Places0' = Places0 /\ Quotable' = Quotable
           /\ \A sec : SectionOK(sec) => SectionOK(sec)'
           /\ \A ss : (\E S : ss \in Seq(S) /\ \A sec \in S : SectionOK(sec))
                        => \E S : ss \in Seq(S) /\ \A sec \in S : SectionOK(sec)'
  <1>1. Places0' = Places0
    BY DEF Places0
  <1>2. \A e : Says(e)' = Says(e)
    BY DEF Says, FileOf
  <1>3. Quotable' = Quotable
    BY <1>1, <1>2, Zenon DEF Quotable
  <1>4. \A ps : Quoting(ps) => Quoting(ps)'
    BY <1>3, Zenon DEF Quoting
  <1>5. \A sec : SectionOK(sec) => SectionOK(sec)'
    BY <1>4, Zenon DEF SectionOK
  <1> QED
    BY <1>1, <1>3, <1>5, Zenon

LEMMA InitDocument == PipelineInit => DocumentInv
  <1> SUFFICES ASSUME PipelineInit PROVE DocumentInv
    OBVIOUS
  <1>1. /\ format \in {"latex", "pdf", "other"} /\ stage = "source" /\ at = <<1, 1>>
        /\ pending = << >> /\ current = NoSection /\ sections = << >>
        /\ claims = << >> /\ references = << >>
    BY DEF PipelineInit, SourceInit
  <1>2. << >> \in Seq({}) /\ << >> \in Seq(Places0)
    OBVIOUS
  <1>3. SectionOK(current)
    BY <1>1, EmptySectionOK
  <1>4. \E S : sections \in Seq(S) /\ \A sec \in S : SectionOK(sec)
    BY <1>1, <1>2
  <1>5. IsSequence(claims) /\ IsSequence(references)
    BY <1>1, <1>2 DEF IsSequence
  <1>6. at \in (Nat \ {0}) \X (Nat \ {0})
    BY <1>1
  <1> QED
    BY <1>1, <1>2, <1>3, <1>4, <1>5, <1>6, Zenon DEF DocumentInv

LEMMA ReadLineStep == ResolverInv /\ DocumentInv /\ ReadLine /\ UNCHANGED resolverVars => DocumentInv'
  <1> SUFFICES ASSUME ResolverInv, DocumentInv, ReadLine, UNCHANGED resolverVars PROVE DocumentInv'
    OBVIOUS
  <1>1. /\ stage = "merge" /\ format = "latex" /\ format' = format
        /\ references' = references /\ text' = text /\ fragments' = fragments
        /\ at[1] <= Len(fragments)
    BY DEF ReadLine, resolverVars, DocumentInv
  <1>2. /\ Places0' = Places0 /\ \A sec : SectionOK(sec) => SectionOK(sec)'
        /\ \A ss : (\E S : ss \in Seq(S) /\ \A sec \in S : SectionOK(sec))
                        => \E S : ss \in Seq(S) /\ \A sec \in S : SectionOK(sec)'
    BY <1>1, QuotableKept, Zenon
  <1>3. at \in Places0 /\ <<at[1], at[2] + 1>> \in (Nat \ {0}) \X (Nat \ {0})
    <2>1. at[1] \in Nat \ {0} /\ at[2] \in Nat \ {0} /\ at = <<at[1], at[2]>>
      BY DEF DocumentInv
    <2>2. Len(fragments) \in Nat
      BY Lengths DEF ResolverInv
    <2>3. at[1] \in 1..Len(fragments)
      BY <1>1, <2>1, <2>2
    <2> QED
      BY <2>1, <2>3 DEF Places0
  <1>4. << >> \in Seq(Places0)
    OBVIOUS
  <1>5. IsSequence(claims) /\ IsSequence(references)
    BY DEF DocumentInv
  <1>6. CASE BlankLine /\ at' = <<at[1], at[2] + 1>> /\ stage' = stage
    <2>1. current' = Flushed /\ Flush /\ sections' = sections
      BY <1>6 DEF BlankLine
    <2>2. SectionOK(Flushed)
      BY <1>1, FlushedOK
    <2>3. SectionOK(current)'
      BY <1>2, <2>1, <2>2
    <2>4. \E S : sections' \in Seq(S) /\ \A sec \in S : SectionOK(sec)'
      BY <1>2, <2>1 DEF DocumentInv
    <2>5. pending' = << >> /\ IsSequence(claims')
      BY <2>1, FlushSequences
    <2> QED
      BY <1>1, <1>2, <1>3, <1>4, <1>5, <1>6, <2>3, <2>4, <2>5 DEF DocumentInv, IsSequence
  <1>7. CASE SectionLine /\ at' = <<at[1], at[2] + 1>> /\ stage' = stage
    <2>1. /\ Flush /\ sections' = Closed(Flushed)
          /\ current' = [id |-> <<"section", counter + 1>>, paragraphs |-> << >>]
      BY <1>7 DEF SectionLine
    <2>2. SectionOK(Flushed)
      BY <1>1, FlushedOK
    <2>3. SectionOK(current)'
      <3>1. << >> \in Seq({})
        OBVIOUS
      <3>2. Quoting(<< >>)'
        BY NothingQuoted DEF Quoting
      <3> QED
        BY <2>1, <3>2 DEF SectionOK
    <2>4. \E S : sections' \in Seq(S) /\ \A sec \in S : SectionOK(sec)'
      BY <1>2, <2>1, <2>2, ClosedOK
    <2>5. pending' = << >> /\ IsSequence(claims')
      BY <2>1, FlushSequences
    <2> QED
      BY <1>1, <1>2, <1>3, <1>4, <1>5, <1>7, <2>3, <2>4, <2>5 DEF DocumentInv, IsSequence
  <1>8. CASE (StructuralLine \/ ProseLine) /\ at' = <<at[1], at[2] + 1>> /\ stage' = stage
    <2>1. /\ UNCHANGED <<current, sections, claims>>
          /\ pending' = pending \/ pending' = Append(pending, at)
      BY <1>8 DEF StructuralLine, ProseLine
    <2>2. pending' \in Seq(Places0)
      <3>1. pending \in Seq(Places0)
        BY DEF DocumentInv
      <3>2. Append(pending, at) \in Seq(Places0)
        BY <1>3, <3>1, Grows
      <3> QED
        BY <2>1, <3>1, <3>2
    <2>3. SectionOK(current)'
      BY <1>2, <2>1 DEF DocumentInv
    <2>4. \E S : sections' \in Seq(S) /\ \A sec \in S : SectionOK(sec)'
      BY <1>2, <2>1 DEF DocumentInv
    <2> QED
      BY <1>1, <1>2, <1>3, <1>5, <1>8, <2>1, <2>2, <2>3, <2>4 DEF DocumentInv, IsSequence
  <1>9. CASE Panic
    <2>1. stage' = "panic" /\ UNCHANGED <<at, pending, counter, current, sections, citations, claims>>
      BY <1>9 DEF Panic
    <2>2. SectionOK(current)'
      BY <1>2, <2>1 DEF DocumentInv
    <2>3. \E S : sections' \in Seq(S) /\ \A sec \in S : SectionOK(sec)'
      BY <1>2, <2>1 DEF DocumentInv
    <2> QED
      BY <1>1, <1>2, <1>5, <2>1, <2>2, <2>3 DEF DocumentInv, IsSequence
  <1> QED
    BY <1>6, <1>7, <1>8, <1>9 DEF ReadLine

LEMMA EndFragmentStep == ResolverInv /\ DocumentInv /\ EndFragment /\ UNCHANGED resolverVars => DocumentInv'
  <1> SUFFICES ASSUME ResolverInv, DocumentInv, EndFragment, UNCHANGED resolverVars PROVE DocumentInv'
    OBVIOUS
  <1>1. /\ stage = "merge" /\ format = "latex" /\ format' = format
        /\ text' = text /\ fragments' = fragments /\ at[1] <= Len(fragments)
    BY DEF EndFragment, resolverVars, DocumentInv
  <1>2. /\ Places0' = Places0 /\ \A sec : SectionOK(sec) => SectionOK(sec)'
        /\ \A ss : (\E S : ss \in Seq(S) /\ \A sec \in S : SectionOK(sec))
                        => \E S : ss \in Seq(S) /\ \A sec \in S : SectionOK(sec)'
    BY <1>1, QuotableKept, Zenon
  <1>3. <<at[1] + 1, 1>> \in (Nat \ {0}) \X (Nat \ {0})
    BY DEF DocumentInv
  <1>4. << >> \in Seq(Places0)
    OBVIOUS
  <1>5. CASE /\ at' = <<at[1] + 1, 1>>
             /\ current' = Flushed /\ Flush
             /\ references' = MergeReferences(references, ReferencesIn(FileOf(at[1])))
             /\ UNCHANGED <<stage, counter, sections>>
    <2>1. SectionOK(Flushed)
      BY <1>1, FlushedOK
    <2>2. SectionOK(current)'
      BY <1>2, <1>5, <2>1
    <2>3. \E S : sections' \in Seq(S) /\ \A sec \in S : SectionOK(sec)'
      BY <1>2, <1>5 DEF DocumentInv
    <2>4. pending' = << >> /\ IsSequence(claims')
      BY <1>5, FlushSequences
    <2>5. IsSequence(references')
      BY <1>1, <1>5, ReferencesOK
    <2> QED
      BY <1>1, <1>2, <1>3, <1>4, <1>5, <2>2, <2>3, <2>4, <2>5 DEF DocumentInv, IsSequence
  <1>6. CASE Panic /\ UNCHANGED references
    <2>1. stage' = "panic" /\ UNCHANGED <<at, pending, counter, current, sections, citations, claims>>
      BY <1>6 DEF Panic
    <2>2. SectionOK(current)'
      BY <1>2, <2>1 DEF DocumentInv
    <2>3. \E S : sections' \in Seq(S) /\ \A sec \in S : SectionOK(sec)'
      BY <1>2, <2>1 DEF DocumentInv
    <2> QED
      BY <1>1, <1>2, <1>6, <2>1, <2>2, <2>3 DEF DocumentInv, IsSequence
  <1> QED
    BY <1>5, <1>6 DEF EndFragment

LEMMA ReadPageStep == DocumentInv /\ ReadPage /\ UNCHANGED resolverVars => DocumentInv'
  <1> SUFFICES ASSUME DocumentInv, ReadPage, UNCHANGED resolverVars PROVE DocumentInv'
    OBVIOUS
  <1>1. /\ stage = "pages" /\ format = "pdf" /\ format' = format
        /\ text' = text /\ fragments' = fragments
        /\ UNCHANGED <<pending, current, claims, references>>
        /\ stage' \in {"pages", "error"}
        /\ at' = at \/ at' = <<at[1] + 1, 1>>
    BY DEF ReadPage, resolverVars, DocumentInv, extracts
  <1>2. /\ Places0' = Places0 /\ \A sec : SectionOK(sec) => SectionOK(sec)'
        /\ \A ss : (\E S : ss \in Seq(S) /\ \A sec \in S : SectionOK(sec))
                        => \E S : ss \in Seq(S) /\ \A sec \in S : SectionOK(sec)'
    BY <1>1, QuotableKept, Zenon
  <1>3. at' \in (Nat \ {0}) \X (Nat \ {0})
    <2>1. <<at[1] + 1, 1>> \in (Nat \ {0}) \X (Nat \ {0})
      BY DEF DocumentInv
    <2> QED
      BY <1>1, <2>1 DEF DocumentInv
  <1>4. SectionOK(current)'
    BY <1>1, <1>2 DEF DocumentInv
  <1> DEFINE page == [id |-> <<<<"page", at[1]>>, 1>>, lines |-> <<at>>,
                      start |-> [file |-> Root, line |-> at[1]]]
             sec == [id |-> <<"section", counter + 1>>, paragraphs |-> <<page>>]
  <1>5. SectionOK(sec)
    <2>1. page.lines \in Seq(Quotable)
      <3>1. at \in Quotable
        <4>1. at \in Nat \X Nat
          BY DEF DocumentInv
        <4> QED
          BY <1>1, <4>1 DEF Quotable
      <3>2. page.lines = <<at>>
        OBVIOUS
      <3> QED
        BY <3>1, <3>2
    <2> HIDE DEF page
    <2>2. <<page>> \in Seq({page})
      OBVIOUS
    <2>3. Quoting(<<page>>)
      BY <2>1, <2>2 DEF Quoting
    <2> QED
      BY <2>3 DEF SectionOK
  <1>6. sections' = sections \/ sections' = Append(sections, sec)
    BY DEF ReadPage
  <1> HIDE DEF page, sec
  <1>7. \E S : Append(sections, sec) \in Seq(S) /\ \A s \in S : SectionOK(s)
    <2>1. PICK S : sections \in Seq(S) /\ \A s \in S : SectionOK(s)
      BY DEF DocumentInv
    <2>2. sections \in Seq(S \cup {sec}) /\ sec \in S \cup {sec}
      BY <2>1
    <2>3. Append(sections, sec) \in Seq(S \cup {sec})
      BY <2>2, Grows
    <2> QED
      BY <1>5, <2>1, <2>3
  <1>8. \E S : sections' \in Seq(S) /\ \A s \in S : SectionOK(s)'
    <2>1. \E S : sections' \in Seq(S) /\ \A s \in S : SectionOK(s)
      BY <1>6, <1>7 DEF DocumentInv
    <2> QED
      BY <1>2, <2>1
  <1> QED
    BY <1>1, <1>2, <1>3, <1>4, <1>8 DEF DocumentInv, IsSequence

LEMMA FinalizeStep == DocumentInv /\ Finalize /\ UNCHANGED resolverVars => DocumentInv'
  <1> SUFFICES ASSUME DocumentInv, Finalize, UNCHANGED resolverVars PROVE DocumentInv'
    OBVIOUS
  <1>1. /\ format' = format /\ stage' = "done" /\ text' = text /\ fragments' = fragments
        /\ UNCHANGED <<at, pending, claims, references>>
        /\ sections' = Closed(current) /\ current' = NoSection
    BY DEF Finalize, resolverVars, extracts
  <1>2. /\ Places0' = Places0 /\ \A sec : SectionOK(sec) => SectionOK(sec)'
        /\ \A ss : (\E S : ss \in Seq(S) /\ \A sec \in S : SectionOK(sec))
                        => \E S : ss \in Seq(S) /\ \A sec \in S : SectionOK(sec)'
    BY <1>1, QuotableKept, Zenon
  <1>3. SectionOK(current)'
    BY <1>1, <1>2, EmptySectionOK
  <1>4. \E S : sections' \in Seq(S) /\ \A sec \in S : SectionOK(sec)'
    <2>1. SectionOK(current)
      BY DEF DocumentInv
    <2> QED
      BY <1>1, <1>2, <2>1, ClosedOK
  <1> QED
    BY <1>1, <1>2, <1>3, <1>4 DEF DocumentInv, IsSequence

(* The steps that only move on, and those of the pipeline.                 *)
LEMMA StageStep ==
    ASSUME DocumentInv, text' = text, fragments' = fragments, format' = format,
           UNCHANGED <<at, pending, current, sections, claims, references>>,
           \/ stage' = stage
           \/ stage' = "merge" /\ format = "latex"
           \/ stage' = "pages" /\ format = "pdf"
           \/ stage' \in {"done", "error"}
    PROVE  DocumentInv'
  <1>2. /\ Places0' = Places0 /\ \A sec : SectionOK(sec) => SectionOK(sec)'
        /\ \A ss : (\E S : ss \in Seq(S) /\ \A sec \in S : SectionOK(sec))
                        => \E S : ss \in Seq(S) /\ \A sec \in S : SectionOK(sec)'
    BY QuotableKept, Zenon
  <1>3. SectionOK(current)'
    BY <1>2 DEF DocumentInv
  <1>4. \E S : sections' \in Seq(S) /\ \A sec \in S : SectionOK(sec)'
    BY <1>2 DEF DocumentInv
  <1> QED
    BY <1>2, <1>3, <1>4 DEF DocumentInv, IsSequence

(* While the source is resolved there is nothing in the document yet.      *)
LEMMA ResolveStep == DocumentInv /\ Resolve => DocumentInv'
  <1> SUFFICES ASSUME DocumentInv, Resolve PROVE DocumentInv'
    OBVIOUS
  <1>1. /\ stage = "source" /\ UNCHANGED <<format, stage, at, pending, current, sections, claims, references>>
        /\ pending = << >> /\ current = NoSection /\ sections = << >>
    BY DEF Resolve, docVars, DocumentInv
  <1>2. << >> \in Seq(Places0') /\ << >> \in Seq({})
    OBVIOUS
  <1>3. SectionOK(current)'
    <2>1. Quoting(<< >>)'
      BY NothingQuoted DEF Quoting
    <2> QED
      BY <1>1, <2>1 DEF SectionOK, NoSection
  <1>4. \E S : sections' \in Seq(S) /\ \A sec \in S : SectionOK(sec)'
    BY <1>1, <1>2
  <1> QED
    BY <1>1, <1>2, <1>3, <1>4 DEF DocumentInv, IsSequence

LEMMA DocumentStep == ResolverInv /\ DocumentInv /\ [PipelineNext]_pipelineVars => DocumentInv'
  <1> SUFFICES ASSUME ResolverInv, DocumentInv, [PipelineNext]_pipelineVars PROVE DocumentInv'
    OBVIOUS
  <1>1. CASE SourceNext
    <2>1. CASE Resolve
      BY <2>1, ResolveStep
    <2>2. CASE ReadLine /\ UNCHANGED resolverVars
      BY <2>2, ReadLineStep
    <2>3. CASE EndFragment /\ UNCHANGED resolverVars
      BY <2>3, EndFragmentStep
    <2>4. CASE Finalize /\ UNCHANGED resolverVars
      BY <2>4, FinalizeStep
    <2>5. CASE ReadPage /\ UNCHANGED resolverVars
      BY <2>5, ReadPageStep
    <2>6. CASE (BeginMerge \/ Unsupported \/ OpenPdf \/ ClosePdf) /\ UNCHANGED resolverVars
      <3>1. /\ text' = text /\ fragments' = fragments /\ format' = format
            /\ UNCHANGED <<at, pending, current, sections, claims, references>>
            /\ \/ stage' = "merge" /\ format = "latex"
               \/ stage' = "pages" /\ format = "pdf"
               \/ stage' \in {"done", "error"}
        BY <2>6 DEF BeginMerge, Unsupported, OpenPdf, ClosePdf, resolverVars, extracts
      <3> QED
        BY <3>1, StageStep
    <2> QED
      BY <1>1, <2>1, <2>2, <2>3, <2>4, <2>5, <2>6 DEF SourceNext
  <1>2. CASE UNCHANGED sourceVars
    <2>1. /\ text' = text /\ fragments' = fragments /\ format' = format /\ stage' = stage
          /\ UNCHANGED <<at, pending, current, sections, claims, references>>
      BY <1>2 DEF sourceVars
    <2> QED
      BY <2>1, StageStep
  <1>3. SourceNext \/ UNCHANGED sourceVars
    BY DEF PipelineNext, pipelineVars, sourceVars, Parse
  <1> QED
    BY <1>1, <1>2, <1>3

LEMMA DocumentAlways == PipelineSpec => []DocumentInv
  BY InitDocument, DocumentStep, ResolverAlways, PTL DEF PipelineSpec
-----------------------------------------------------------------------------
(* What may be in a message, and to whom it may go.                        *)
Asked(msg) ==
    /\ config.memory.enabled /\ config.memory.mode \in {"read_only", "read_write"}
    /\ Cardinality(msg.carries) = 1
    /\ \A x \in msg.carries : x[1] \in {"claim", "title"}

Clean(items) == \A x \in items : x[1] = "line" => x[2] \in Inside /\ text[x[2]][x[3]].kind = "prose"

Addressed(msg) ==
    /\ config.command = "review" \/ (config.command = "bibliography" /\ msg.to = "arxiv")
    /\ msg.to = "arxiv" =>
          /\ config.bibliography.enabled /\ config.bibliography.arxiv
          /\ \A x \in msg.carries : x[1] = "reference"
    /\ msg.to = "qdrant" => config.memory.backend = "qdrant" /\ Asked(msg)
    /\ msg.to = "llm" =>
          \/ /\ config.llm = "openai-compatible"
             /\ \E kind \in config.reviewers : msg.carries = UserPrompt(kind)
          \/ config.memory.embedding = "openai-compatible" /\ Asked(msg)
    /\ Clean(msg.carries)

Parsing == {"begin", "parse"}
Reviewing == {"provider", "memory", "prompts", "review", "record"}

(* Only a document that is parsed is sent, and nothing is parsed any more  *)
(* once it has been: what was sent stays part of it.                       *)
PipeInv ==
    /\ config \in Configurations
    /\ step \in Parsing \cup {"bibliography"} \cup Reviewing \cup Ended
    /\ step \in Parsing => sent = {} /\ verified = << >>
    /\ step = "bibliography" => sent = {} /\ verified = << >>
    /\ sent # {} => stage = "done"
    /\ step \in {"bibliography"} \cup Reviewing => stage = "done" /\ config.command # "inspect"
    /\ step \in Reviewing => config.command = "review"
    /\ step \in Reviewing \ {"provider"} => config.llm # "other"
    /\ step \in Reviewing \cup {"completed"} /\ EffectiveEnabled(config.bibliography)
          /\ config.command # "inspect" => verified = references
    /\ \A msg \in sent : Addressed(msg)

(* The lines of the paragraphs are prose of the fragments.                 *)
LEMMA ParagraphLines == DocumentInv => LinesOf(Paragraphs) \in Seq(Quotable)
  <1> SUFFICES ASSUME DocumentInv PROVE LinesOf(Paragraphs) \in Seq(Quotable)
    OBVIOUS
  <1> DEFINE ps(n) == sections[n].paragraphs
             T == {p \in UNION {{ps(n)[i] : i \in 1..Len(ps(n))} : n \in 1..Len(sections)} :
                     p.lines \in Seq(Quotable)}
  <1>1. PICK S : sections \in Seq(S) /\ \A sec \in S : SectionOK(sec)
    BY DEF DocumentInv
  <1>2. Len(sections) \in Nat /\ \A n \in 1..Len(sections) : SectionOK(sections[n])
    BY <1>1
  <1>3. \A n \in 1..Len(sections) : ps(n) \in Seq(T)
    <2> SUFFICES ASSUME NEW n \in 1..Len(sections) PROVE ps(n) \in Seq(T)
      BY Zenon
    <2>1. PICK id, par : sections[n] = [id |-> id, paragraphs |-> par] /\ Quoting(par)
      BY <1>2 DEF SectionOK
    <2>2. ps(n) = par
      BY <2>1
    <2>3. PICK P : par \in Seq(P) /\ \A p \in P : p.lines \in Seq(Quotable)
      BY <2>1 DEF Quoting
    <2> HIDE DEF ps, Quotable
    <2>4. Len(par) \in Nat /\ par \in [1..Len(par) -> P]
      BY <2>3
    <2>5. \A i \in 1..Len(par) : par[i] \in T
      BY <2>2, <2>3, <2>4
    <2> HIDE DEF T
    <2>6. par \in [1..Len(par) -> T]
      BY <2>4, <2>5
    <2> QED
      BY <2>2, <2>4, <2>6
  <1> HIDE DEF T
  <1>4. [n \in 1..Len(sections) |-> ps(n)] \in Seq(Seq(T))
    <2> HIDE DEF ps
    <2> QED
      BY <1>2, <1>3
  <1>5. Paragraphs \in Seq(T)
    <2>1. Paragraphs = Concat([n \in 1..Len(sections) |-> ps(n)])
      BY Zenon DEF Paragraphs
    <2> HIDE DEF ps
    <2> QED
      BY <1>4, <2>1, ConcatType
  <1>6. \A p \in T : p.lines \in Seq(Quotable)
    BY Zenon DEF T
  <1> DEFINE lines(n) == Paragraphs[n].lines
  <1>7. Len(Paragraphs) \in Nat /\ \A n \in 1..Len(Paragraphs) : lines(n) \in Seq(Quotable)
    <2> HIDE DEF Quotable, Paragraphs
    <2> QED
      BY <1>5, <1>6
  <1>8. [n \in 1..Len(Paragraphs) |-> lines(n)] \in Seq(Seq(Quotable))
    <2> HIDE DEF lines, Quotable, Paragraphs
    <2> QED
      BY <1>7
  <1>9. LinesOf(Paragraphs) = Concat([n \in 1..Len(Paragraphs) |-> lines(n)])
    BY Zenon DEF LinesOf
  <1> HIDE DEF lines
  <1> QED
    BY <1>8, <1>9, ConcatType

(* What a prompt shows of the text is prose of files inside the project.   *)
LEMMA ShownClean ==
    ASSUME ResolverInv, DocumentInv, NEW n \in 1..Len(LinesOf(Paragraphs))
    PROVE  LET x == TextItems[n] IN
           x[1] = "line" => x[2] \in Inside /\ text[x[2]][x[3]].kind = "prose"
  <1> DEFINE e == LinesOf(Paragraphs)[n]
  <1>1. e \in Quotable
    <2> HIDE DEF Quotable
    <2> QED
      BY ParagraphLines
  <1>2. TextItems[n] = LineItem(e)
    BY Zenon DEF TextItems
  <1> HIDE DEF e
  <1>3. CASE format = "pdf"
    <2>1. TextItems[n][1] = "page"
      BY <1>2, <1>3 DEF LineItem
    <2> QED
      BY <2>1
  <1>4. CASE format # "pdf"
    <2>1. e \in Places0 /\ Says(e).kind = "prose"
      BY <1>1, <1>4 DEF Quotable
    <2>2. e[1] \in 1..Len(fragments)
      BY <2>1 DEF Places0
    <2>3. FileOf(e[1]) \in Inside
      BY <2>2 DEF ResolverInv, Included, FileOf
    <2>4. TextItems[n] = <<"line", FileOf(e[1]), e[2]>>
      BY <1>2, <1>4 DEF LineItem
    <2> HIDE DEF Says
    <2> DEFINE x == TextItems[n]
    <2>5. x[2] = FileOf(e[1]) /\ x[3] = e[2]
      BY <2>4
    <2> HIDE DEF x
    <2>6. text[x[2]][x[3]] = Says(e)
      BY <2>5, Zenon DEF Says
    <2> QED
      BY <2>1, <2>3, <2>5, <2>6, Zenon DEF x
  <1> QED
    BY <1>3, <1>4

LEMMA PromptClean ==
    ASSUME ResolverInv, DocumentInv, NEW kind
    PROVE  Clean(UserPrompt(kind))
  <1> DEFINE lines == LinesOf(Paragraphs)
             refs == [n \in 1..Len(references) |-> ReferenceItem(references[n])]
             clms == [n \in 1..Len(claims) |-> ClaimItem(claims[n])]
             all == TextItems \o refs \o clms
             room == IF Len(all) <= PROMPT_CHARS THEN Len(all) ELSE PROMPT_CHARS
             Good(x) == x[1] = "line" => x[2] \in Inside /\ text[x[2]][x[3]].kind = "prose"
             Items == {TextItems[n] : n \in 1..Len(lines)} \cup {refs[n] : n \in 1..Len(references)}
                        \cup {clms[n] : n \in 1..Len(claims)}
  <1>1. Len(lines) \in Nat
    <2> HIDE DEF Quotable
    <2> QED
      BY ParagraphLines
  <1>2. Len(references) \in Nat /\ Len(claims) \in Nat
    BY DEF DocumentInv, IsSequence
  <1>3. TextItems \in Seq(Items)
    <2>1. DOMAIN TextItems = 1..Len(lines) /\ TextItems = [n \in 1..Len(lines) |-> TextItems[n]]
      BY DEF TextItems
    <2> HIDE DEF lines, refs, clms
    <2> QED
      BY <1>1, <2>1
  <1>4. refs \in Seq(Items)
    <2>1. DOMAIN refs = 1..Len(references) /\ refs = [n \in 1..Len(references) |-> refs[n]]
      OBVIOUS
    <2> HIDE DEF lines, refs, clms
    <2> QED
      BY <1>2, <2>1
  <1>5. clms \in Seq(Items)
    <2>1. DOMAIN clms = 1..Len(claims) /\ clms = [n \in 1..Len(claims) |-> clms[n]]
      OBVIOUS
    <2> HIDE DEF lines, refs, clms
    <2> QED
      BY <1>2, <2>1
  <1>6. \A x \in Items : Good(x)
    <2>1. \A n \in 1..Len(lines) : Good(TextItems[n])
      BY ShownClean
    <2>2. \A n \in 1..Len(references) : Good(refs[n])
      <3>1. \A n \in 1..Len(references) : refs[n][1] = "reference"
        BY DEF ReferenceItem
      <3> HIDE DEF refs
      <3> QED
        BY <3>1
    <2>3. \A n \in 1..Len(claims) : Good(clms[n])
      <3>1. \A n \in 1..Len(claims) : clms[n][1] = "claim"
        BY DEF ClaimItem
      <3> HIDE DEF clms
      <3> QED
        BY <3>1
    <2> HIDE DEF Good, lines, refs, clms
    <2> QED
      BY <2>1, <2>2, <2>3, Zenon
  <1> HIDE DEF lines, refs, Items, Good
  <1>7. all \in Seq(Items) /\ Len(all) \in Nat
    <2> HIDE DEF clms
    <2> QED
      BY <1>3, <1>4, <1>5
  <1>8. \A x \in Range(RenderDocument) : Good(x)
    <2>1. RenderDocument = SubSeq(all, 1, room)
      BY Zenon DEF RenderDocument, refs
    <2> HIDE DEF all
    <2>2. room \in 0..Len(all)
      BY <1>7, PipelineAssumption
    <2> HIDE DEF room
    <2>3. SubSeq(all, 1, room) \in Seq(Items)
      BY <1>7, <2>2
    <2>4. \A x \in Range(RenderDocument) : x \in Items
      BY <2>1, <2>3 DEF Range
    <2> QED
      BY <1>6, <2>4
  <1>9. CASE kind = "figures"
    <2>1. \A x \in UserPrompt(kind) : x[1] = "float"
      BY <1>9 DEF UserPrompt
    <2> QED
      BY <2>1 DEF Clean
  <1>10. CASE kind # "figures"
    BY <1>8, <1>10, Zenon DEF Clean, UserPrompt, Good
  <1> QED
    BY <1>9, <1>10

LEMMA InitPipe == PipelineInit => PipeInv
  <1> SUFFICES ASSUME PipelineInit PROVE PipeInv
    OBVIOUS
  <1>1. config \in Configurations /\ step = "begin" /\ verified = << >> /\ sent = {}
    BY PipelineAssumption DEF PipelineInit
  <1> QED
    BY <1>1 DEF PipeInv, Parsing, Reviewing

(* A message stays what it was while neither document nor configuration    *)
(* change.                                                                 *)
LEMMA AddressedKept ==
    ASSUME UNCHANGED sourceVars, config' = config, NEW msg, Addressed(msg)
    PROVE  Addressed(msg)'
  <1>1. \A kind : UserPrompt(kind)' = UserPrompt(kind)
    BY DEF sourceVars, UserPrompt, RenderDocument, TextItems, LineItem, FileOf, Paragraphs,
           ReferenceItem, ClaimItem
  <1>2. text' = text
    BY DEF sourceVars
  <1>3. Clean(msg.carries)'
    BY <1>2 DEF Addressed, Clean
  <1>4. Asked(msg)' <=> Asked(msg)
    BY DEF Asked
  <1> QED
    BY <1>1, <1>3, <1>4, Zenon DEF Addressed

(* A step that sends nothing moves on, or ends the review.                 *)
LEMMA SilentStep ==
    ASSUME PipeInv, UNCHANGED sourceVars, UNCHANGED <<config, verified, sent>>,
           step' \in {"bibliography"} \cup Reviewing \cup Ended,
           step' \in {"bibliography"} \cup Reviewing => stage = "done" /\ config.command # "inspect",
           step' = "bibliography" => step \in Parsing,
           step' \in Reviewing => config.command = "review",
           step' \in Reviewing \ {"provider"} => config.llm # "other",
           step' \in Reviewing \cup {"completed"} /\ EffectiveEnabled(config.bibliography)
              /\ config.command # "inspect" => verified = references
    PROVE  PipeInv'
  <1>1. stage' = stage /\ references' = references /\ config' = config /\ verified' = verified
        /\ sent' = sent
    BY DEF sourceVars
  <1>2. \A msg \in sent' : Addressed(msg)'
    BY <1>1, AddressedKept DEF PipeInv
  <1>3. step' \notin Parsing
    BY DEF Parsing, Reviewing, Ended
  <1> HIDE DEF Parsing, Reviewing, Ended
  <1>4. step' = "bibliography" => sent' = {} /\ verified' = << >>
    BY <1>1 DEF PipeInv
  <1> QED
    BY <1>1, <1>2, <1>3, <1>4 DEF PipeInv, EffectiveEnabled

LEMMA BibliographyStep ==
    PipeInv /\ VerifyBibliography /\ UNCHANGED sourceVars => PipeInv'
  <1> SUFFICES ASSUME PipeInv, VerifyBibliography, UNCHANGED sourceVars PROVE PipeInv'
    OBVIOUS
  <1> DEFINE b == config.bibliography
  <1>1. /\ step = "bibliography" /\ config' = config /\ config \in Configurations
        /\ stage = "done" /\ config.command # "inspect" /\ sent = {} /\ verified = << >>
    BY DEF VerifyBibliography, PipeInv
  <1>2. config.command \in {"review", "bibliography"}
    BY <1>1 DEF Configurations
  <1>3. /\ Onward \in {"provider", "completed"}
        /\ Onward = "provider" => config.command = "review"
    BY <1>2 DEF Onward
  <1>4. CASE (~EffectiveEnabled(b) \/ references = << >>) /\ step' = Onward /\ UNCHANGED <<verified, sent>>
    <2>1. EffectiveEnabled(b) => verified = references
      BY <1>1, <1>4
    <2> QED
      BY <1>1, <1>3, <1>4, <2>1, SilentStep DEF Parsing, Reviewing, Ended
  <1>5. CASE step' = "failed" /\ UNCHANGED <<verified, sent>>
    BY <1>1, <1>5, SilentStep DEF Parsing, Reviewing, Ended
  <1>6. CASE /\ EffectiveEnabled(b) /\ verified' = references
             /\ \E asked \in IF b.provider = "arxiv" THEN SUBSET Range(references) ELSE {{}} :
                   sent' = sent \cup {Message("arxiv", {ReferenceItem(r)}) : r \in asked}
             /\ step' = Onward
    <2>1. \A msg \in sent' : Addressed(msg)
      <3> SUFFICES ASSUME NEW msg \in sent' PROVE Addressed(msg)
        OBVIOUS
      <3>1. PICK asked \in IF b.provider = "arxiv" THEN SUBSET Range(references) ELSE {{}} :
               sent' = sent \cup {Message("arxiv", {ReferenceItem(r)}) : r \in asked}
        BY <1>6
      <3>2. PICK r \in asked : msg = Message("arxiv", {ReferenceItem(r)})
        BY <1>1, <3>1
      <3>3. b.provider = "arxiv"
        BY <3>1, <3>2
      <3>4. b.enabled /\ b.arxiv
        BY <1>6, <3>3 DEF EffectiveEnabled
      <3>5. msg.to = "arxiv" /\ msg.carries = {ReferenceItem(r)}
        BY <3>2 DEF Message
      <3>6. \A x \in msg.carries : x[1] = "reference"
        BY <3>5 DEF ReferenceItem
      <3>7. Clean(msg.carries)
        BY <3>6 DEF Clean
      <3> QED
        BY <1>2, <3>4, <3>5, <3>6, <3>7 DEF Addressed
    <2>2. \A msg \in sent' : Addressed(msg)'
      BY <1>1, <2>1, AddressedKept
    <2>3. stage' = stage /\ references' = references
      BY DEF sourceVars
    <2> QED
      BY <1>1, <1>3, <1>6, <2>2, <2>3 DEF PipeInv, Parsing, Reviewing, Ended
  <1> QED
    BY <1>4, <1>5, <1>6 DEF VerifyBibliography

LEMMA MemoryStep == PipeInv /\ RetrieveMemory /\ UNCHANGED sourceVars => PipeInv'
  <1> SUFFICES ASSUME PipeInv, RetrieveMemory, UNCHANGED sourceVars PROVE PipeInv'
    OBVIOUS
  <1> DEFINE m == config.memory
             remote == m.embedding = "openai-compatible"
             places == (IF remote THEN {"llm"} ELSE {}) \cup (IF m.backend = "qdrant" THEN {"qdrant"} ELSE {})
  <1>1. /\ step = "memory" /\ config' = config /\ verified' = verified /\ config \in Configurations
        /\ stage = "done" /\ config.command = "review" /\ config.llm # "other"
        /\ EffectiveEnabled(config.bibliography) => verified = references
    BY DEF RetrieveMemory, PipeInv, Reviewing
  <1>2. step' \in {"prompts", "panicked"}
    BY DEF RetrieveMemory
  <1>3. CASE sent' = sent
    BY <1>1, <1>2, <1>3, SilentStep DEF Parsing, Reviewing, Ended
  <1>4. CASE Retrieves(m) /\ sent' = sent \cup {Message(p, {MemoryQuery}) : p \in places}
    <2>1. m.enabled /\ m.mode \in {"read_only", "read_write"}
      BY <1>4 DEF Retrieves, MemoryMode
    <2>2. MemoryQuery[1] \in {"claim", "title"}
      BY DEF MemoryQuery, ClaimItem, Title
    <2>3. ASSUME NEW p \in places PROVE Addressed(Message(p, {MemoryQuery}))
      <3> DEFINE msg == Message(p, {MemoryQuery})
      <3>1. msg.to = p /\ msg.carries = {MemoryQuery}
        BY DEF Message
      <3> HIDE DEF msg
      <3>2. Cardinality(msg.carries) = 1
        BY <3>1, FS_Singleton
      <3>3. \A x \in msg.carries : x[1] \in {"claim", "title"}
        BY <2>2, <3>1
      <3>4. Asked(msg)
        BY <2>1, <3>2, <3>3 DEF Asked
      <3>5. Clean(msg.carries)
        BY <3>3 DEF Clean
      <3>6. (p = "llm" /\ remote) \/ (p = "qdrant" /\ m.backend = "qdrant")
        <4>1. p \in (IF remote THEN {"llm"} ELSE {}) \/ p \in (IF m.backend = "qdrant" THEN {"qdrant"} ELSE {})
          BY <2>3
        <4> HIDE DEF m, remote
        <4>2. p \in (IF remote THEN {"llm"} ELSE {}) => p = "llm" /\ remote
          BY Zenon
        <4>3. p \in (IF m.backend = "qdrant" THEN {"qdrant"} ELSE {}) => p = "qdrant" /\ m.backend = "qdrant"
          BY Zenon
        <4> QED
          BY <4>1, <4>2, <4>3, Zenon
      <3>7. Addressed(msg)
        BY <1>1, <3>1, <3>4, <3>5, <3>6 DEF Addressed
      <3> QED
        BY <3>7 DEF msg
    <2>4. \A msg \in sent' : Addressed(msg)
      <3> HIDE DEF places
      <3> QED
        BY <1>4, <2>3 DEF PipeInv
    <2>5. \A msg \in sent' : Addressed(msg)'
      BY <1>1, <2>4, AddressedKept
    <2>6. stage' = stage /\ references' = references
      BY DEF sourceVars
    <2> QED
      BY <1>1, <1>2, <2>5, <2>6 DEF PipeInv, Parsing, Reviewing, Ended
  <1> QED
    BY <1>3, <1>4 DEF RetrieveMemory

LEMMA ReviewStep ==
    ResolverInv /\ DocumentInv /\ PipeInv /\ Review /\ UNCHANGED sourceVars => PipeInv'
  <1> SUFFICES ASSUME ResolverInv, DocumentInv, PipeInv, Review, UNCHANGED sourceVars PROVE PipeInv'
    OBVIOUS
  <1>1. /\ step = "review" /\ step' = "record" /\ config' = config /\ verified' = verified
        /\ config \in Configurations /\ stage = "done" /\ config.command = "review" /\ config.llm # "other"
        /\ EffectiveEnabled(config.bibliography) => verified = references
    BY DEF Review, PipeInv, Reviewing
  <1>2. PICK called \in IF config.llm = "mock" THEN {{}} ELSE SUBSET config.reviewers :
           sent' = sent \cup {Message("llm", UserPrompt(kind)) : kind \in called}
    BY DEF Review
  <1>3. ASSUME NEW kind \in called PROVE Addressed(Message("llm", UserPrompt(kind)))
    <2> DEFINE msg == Message("llm", UserPrompt(kind))
    <2>1. msg.to = "llm" /\ msg.carries = UserPrompt(kind)
      BY DEF Message
    <2> HIDE DEF msg
    <2>2. kind \in config.reviewers /\ config.llm # "mock"
      BY <1>2
    <2>4. config.llm = "openai-compatible"
      BY <1>1, <2>2 DEF Configurations, LlmConfig
    <2>3. Clean(msg.carries)
      BY <2>1, PromptClean
    <2> QED
      BY <1>1, <2>1, <2>2, <2>3, <2>4 DEF Addressed, msg
  <1>4. \A msg \in sent' : Addressed(msg)
    BY <1>2, <1>3 DEF PipeInv
  <1>5. \A msg \in sent' : Addressed(msg)'
    BY <1>1, <1>4, AddressedKept
  <1>6. stage' = stage /\ references' = references
    BY DEF sourceVars
  <1> QED
    BY <1>1, <1>5, <1>6 DEF PipeInv, Parsing, Reviewing, Ended

LEMMA PipeStep ==
    ResolverInv /\ DocumentInv /\ PipeInv /\ [PipelineNext]_pipelineVars => PipeInv'
  <1> SUFFICES ASSUME ResolverInv, DocumentInv, PipeInv, [PipelineNext]_pipelineVars PROVE PipeInv'
    OBVIOUS
  <1>1. CASE Parse
    <2>1. step \in Parsing /\ step' = step /\ config' = config /\ sent' = sent /\ verified' = verified
      BY <1>1 DEF Parse, runVars, Parsing
    <2>2. sent' = {} /\ verified' = << >>
      BY <2>1 DEF PipeInv
    <2> QED
      BY <2>1, <2>2 DEF PipeInv, Parsing, Reviewing, Ended
  <1>2. CASE Begin /\ UNCHANGED sourceVars
    <2>1. /\ step = "begin" /\ UNCHANGED <<config, verified, sent>>
          /\ step' = IF config.command = "bibliography" /\ ~EffectiveEnabled(config.bibliography)
                       THEN "completed" ELSE "parse"
      BY <1>2 DEF Begin
    <2>2. CASE step' = "completed"
      <3>1. ~EffectiveEnabled(config.bibliography)
        BY <2>1, <2>2
      <3> QED
        BY <1>2, <2>1, <2>2, <3>1, SilentStep DEF Parsing, Reviewing, Ended
    <2>3. CASE step' = "parse"
      <3>1. sent' = {} /\ verified' = << >> /\ config' \in Configurations
        BY <2>1 DEF PipeInv, Parsing
      <3> QED
        BY <2>1, <2>3, <3>1 DEF PipeInv, Parsing, Reviewing, Ended
    <2> QED
      BY <2>1, <2>2, <2>3
  <1>3. CASE (Parsed \/ Inspected) /\ UNCHANGED sourceVars
    <2>1. /\ step = "parse" /\ UNCHANGED <<config, verified, sent>>
          /\ \/ stage = "done" /\ config.command # "inspect" /\ step' = "bibliography"
             \/ step' \in {"failed", "panicked"}
             \/ config.command = "inspect" /\ step' = "completed"
      BY <1>3 DEF Parsed, Inspected
    <2> QED
      BY <1>3, <2>1, SilentStep DEF Parsing, Reviewing, Ended
  <1>4. CASE (BuildProvider \/ AssignReviewers \/ SaveRecord) /\ UNCHANGED sourceVars
    <2>1. /\ UNCHANGED <<config, verified, sent>>
          /\ \/ step = "provider" /\ step' = "memory" /\ config.llm # "other"
             \/ step = "prompts" /\ step' = "review"
             \/ step = "record" /\ step' = "completed"
             \/ step' = "failed"
      BY <1>4 DEF BuildProvider, AssignReviewers, SaveRecord
    <2>2. step' # "failed" =>
             /\ stage = "done" /\ config.command = "review"
             /\ step # "provider" => config.llm # "other"
             /\ EffectiveEnabled(config.bibliography) => verified = references
      BY <2>1 DEF PipeInv, Reviewing
    <2> QED
      BY <1>4, <2>1, <2>2, SilentStep DEF Parsing, Reviewing, Ended
  <1>5. CASE UNCHANGED pipelineVars
    <2>1. UNCHANGED sourceVars /\ UNCHANGED <<config, step, verified, sent>>
      BY <1>5 DEF pipelineVars, sourceVars
    <2>2. stage' = stage /\ references' = references
      BY <2>1 DEF sourceVars
    <2>3. \A msg \in sent' : Addressed(msg)'
      BY <2>1, AddressedKept DEF PipeInv
    <2> QED
      BY <2>1, <2>2, <2>3 DEF PipeInv, EffectiveEnabled
  <1>6. CASE VerifyBibliography /\ UNCHANGED sourceVars
    BY <1>6, BibliographyStep
  <1>7. CASE RetrieveMemory /\ UNCHANGED sourceVars
    BY <1>7, MemoryStep
  <1>8. CASE Review /\ UNCHANGED sourceVars
    BY <1>8, ReviewStep
  <1> QED
    BY <1>1, <1>2, <1>3, <1>4, <1>5, <1>6, <1>7, <1>8 DEF PipelineNext

LEMMA PipeAlways == PipelineSpec => []PipeInv
  BY InitPipe, PipeStep, ResolverAlways, DocumentAlways, PTL DEF PipelineSpec

(* Whatever the configuration, the project and the answers of the services *)
(* are, a manuscript goes only to those the configuration sends it to, of  *)
(* its text only prose of files inside the project, and only once it has   *)
(* been parsed to its end (run_pipeline, user_prompt, retrieve_context,    *)
(* run_bibliography_verification).                                         *)
THEOREM EgressAlways == PipelineSpec => []Egress
  <1>1. PipeInv => Egress
    <2> SUFFICES ASSUME PipeInv PROVE Egress
      OBVIOUS
    <2>1. config.command \in {"review", "bibliography", "inspect"}
      BY DEF PipeInv, Configurations
    <2>2. sent # {} => stage = "done"
      BY DEF PipeInv
    <2>3. \A msg \in sent : Addressed(msg)
      BY DEF PipeInv
    <2> QED
      BY <2>1, <2>2, <2>3 DEF Egress, Addressed, Asked, Clean
  <1> QED
    BY <1>1, PipeAlways, PTL

(* A review that ends with a record, or a `bibliography` with its list,    *)
(* has a result for every reference of the document if verification is on  *)
(* (the part of PipelineEnds that needs no fairness).                      *)
THEOREM VerifiedInFull ==
    PipelineSpec => [](step = "completed" /\ EffectiveEnabled(config.bibliography)
                         /\ config.command # "inspect" => verified = references)
  <1>1. PipeInv => (step = "completed" /\ EffectiveEnabled(config.bibliography)
                      /\ config.command # "inspect" => verified = references)
    BY DEF PipeInv
  <1> QED
    BY <1>1, PipeAlways, PTL

-----------------------------------------------------------------------------
ParasOf(secs) == Concat([n \in 1..Len(secs) |-> secs[n].paragraphs])

LEMMA ParasAppend ==
    ASSUME NEW P, NEW T, NEW secs \in Seq(T), NEW s \in T, \A t \in T : t.paragraphs \in Seq(P)
    PROVE  /\ ParasOf(secs) \in Seq(P)
           /\ ParasOf(Append(secs, s)) = ParasOf(secs) \o s.paragraphs
  <1> DEFINE N == Len(secs)
             more == Append(secs, s)
             a == [n \in 1..N |-> secs[n].paragraphs]
             b == [n \in 1..N + 1 |-> more[n].paragraphs]
  <1>1. /\ Len(more) = N + 1 /\ N \in Nat
        /\ \A n \in 1..N : more[n] = secs[n] /\ secs[n] \in T
        /\ more[N + 1] = s
    BY Appended
  <1>2. ParasOf(secs) = Concat(a) /\ ParasOf(more) = Concat(b)
    BY <1>1 DEF ParasOf
  <1> HIDE DEF N, more
  <1>3. \A n \in 1..N + 1 : n \in 1..N \/ n = N + 1
    BY <1>1
  <1>4. /\ \A n \in 1..N : secs[n].paragraphs \in Seq(P)
        /\ \A n \in 1..N + 1 : more[n].paragraphs \in Seq(P)
    BY <1>1, <1>3
  <1>5. /\ a \in [1..N -> Seq(P)] /\ b \in [1..N + 1 -> Seq(P)]
        /\ \A n \in 1..N : b[n] = a[n]
        /\ b[N + 1] = s.paragraphs
    BY <1>1, <1>4
  <1> HIDE DEF a, b
  <1>6. Concat(a) \in Seq(P) /\ Concat(b) = Concat(a) \o s.paragraphs
    BY <1>1, <1>5, ConcatMore, ZenonT(40)
  <1>7. ParasOf(secs) \in Seq(P)
    BY <1>2, <1>6, Zenon
  <1>8. ParasOf(more) = ParasOf(secs) \o s.paragraphs
    BY <1>2, <1>6, Zenon
  <1> QED
    BY <1>7, <1>8, Zenon DEF more

LEMMA LinesAppend ==
    ASSUME NEW L, NEW T, NEW ps \in Seq(T), NEW p \in T, \A t \in T : t.lines \in Seq(L)
    PROVE  /\ LinesOf(ps) \in Seq(L)
           /\ LinesOf(Append(ps, p)) = LinesOf(ps) \o p.lines
  <1> DEFINE N == Len(ps)
             more == Append(ps, p)
             a == [n \in 1..N |-> ps[n].lines]
             b == [n \in 1..N + 1 |-> more[n].lines]
  <1>1. /\ Len(more) = N + 1 /\ N \in Nat
        /\ \A n \in 1..N : more[n] = ps[n] /\ ps[n] \in T
        /\ more[N + 1] = p
    BY Appended
  <1>2. LinesOf(ps) = Concat(a) /\ LinesOf(more) = Concat(b)
    BY <1>1 DEF LinesOf
  <1> HIDE DEF N, more
  <1>3. \A n \in 1..N + 1 : n \in 1..N \/ n = N + 1
    BY <1>1
  <1>4. /\ \A n \in 1..N : ps[n].lines \in Seq(L)
        /\ \A n \in 1..N + 1 : more[n].lines \in Seq(L)
    BY <1>1, <1>3
  <1>5. /\ a \in [1..N -> Seq(L)] /\ b \in [1..N + 1 -> Seq(L)]
        /\ \A n \in 1..N : b[n] = a[n]
        /\ b[N + 1] = p.lines
    BY <1>1, <1>4
  <1> HIDE DEF a, b
  <1>6. Concat(a) \in Seq(L) /\ Concat(b) = Concat(a) \o p.lines
    BY <1>1, <1>5, ConcatMore, ZenonT(40)
  <1>7. LinesOf(ps) \in Seq(L)
    BY <1>2, <1>6, Zenon
  <1>8. LinesOf(more) = LinesOf(ps) \o p.lines
    BY <1>2, <1>6, Zenon
  <1> QED
    BY <1>7, <1>8, Zenon DEF more

LEMMA CleanedAppend ==
    ASSUME NEW S, NEW par \in Seq(S), NEW e \in S
    PROVE  /\ Cleaned(par) \in Seq(S)
           /\ Cleaned(Append(par, e)) = Cleaned(par) \o IF Says(e).kind = "prose" THEN <<e>> ELSE << >>
  <1> DEFINE piece(x) == IF Says(x).kind = "prose" THEN <<x>> ELSE << >>
             N == Len(par)
             more == Append(par, e)
             a == [n \in 1..N |-> piece(par[n])]
             b == [n \in 1..N + 1 |-> piece(more[n])]
  <1>1. /\ Len(more) = N + 1 /\ N \in Nat
        /\ \A n \in 1..N : more[n] = par[n] /\ par[n] \in S
        /\ more[N + 1] = e
    BY Appended
  <1>2. Cleaned(par) = Concat(a) /\ Cleaned(more) = Concat(b)
    BY <1>1 DEF Cleaned
  <1>3. \A x \in S : piece(x) \in Seq(S)
    OBVIOUS
  <1> HIDE DEF N, more, piece
  <1>4. \A n \in 1..N + 1 : n \in 1..N \/ n = N + 1
    BY <1>1
  <1>5. /\ \A n \in 1..N : piece(par[n]) \in Seq(S)
        /\ \A n \in 1..N + 1 : piece(more[n]) \in Seq(S)
    BY <1>1, <1>3, <1>4
  <1>6. /\ a \in [1..N -> Seq(S)] /\ b \in [1..N + 1 -> Seq(S)]
        /\ \A n \in 1..N : b[n] = a[n]
        /\ b[N + 1] = piece(e)
    BY <1>1, <1>5
  <1> HIDE DEF a, b
  <1>7. Concat(a) \in Seq(S) /\ Concat(b) = Concat(a) \o piece(e)
    BY <1>1, <1>6, ConcatMore
  <1> QED
    BY <1>2, <1>7 DEF more, piece

-----------------------------------------------------------------------------
(* What is common to all paragraphs of the document.                       *)
LEMMA Common ==
    ASSUME DocumentInv
    PROVE  \E P, T : /\ sections \in Seq(T) /\ current \in T
                     /\ \A t \in T : SectionOK(t) /\ t.paragraphs \in Seq(P)
                     /\ \A p \in P : p.lines \in Seq(Quotable)
  <1>1. PICK S : sections \in Seq(S) /\ \A t \in S : SectionOK(t)
    BY DEF DocumentInv
  <1> DEFINE T == S \cup {current}
             P == {p \in UNION {{t.paragraphs[i] : i \in 1..Len(t.paragraphs)} : t \in T} :
                     p.lines \in Seq(Quotable)}
  <1>2. sections \in Seq(T) /\ current \in T /\ \A t \in T : SectionOK(t)
    BY <1>1 DEF DocumentInv
  <1>3. ASSUME NEW t \in T PROVE t.paragraphs \in Seq(P)
    <2>1. PICK id, par : t = [id |-> id, paragraphs |-> par] /\ Quoting(par)
      BY <1>2, <1>3 DEF SectionOK
    <2>2. t.paragraphs = par
      BY <2>1
    <2>3. PICK S1 : par \in Seq(S1) /\ \A p \in S1 : p.lines \in Seq(Quotable)
      BY <2>1 DEF Quoting
    <2> HIDE DEF T, Quotable
    <2>4. Len(par) \in Nat /\ par \in [1..Len(par) -> S1]
      BY <2>3
    <2>5. \A i \in 1..Len(par) : par[i] \in P
      <3> SUFFICES ASSUME NEW i \in 1..Len(par) PROVE par[i] \in P
        OBVIOUS
      <3>1. par[i] \in {t.paragraphs[j] : j \in 1..Len(t.paragraphs)}
        BY <2>2
      <3>2. par[i] \in UNION {{u.paragraphs[j] : j \in 1..Len(u.paragraphs)} : u \in T}
        BY <3>1, <1>3, Zenon
      <3>3. par[i].lines \in Seq(Quotable)
        BY <2>3, <2>4
      <3> QED
        BY <3>2, <3>3
    <2> HIDE DEF P
    <2>6. par \in [1..Len(par) -> P]
      BY <2>4, <2>5
    <2> QED
      BY <2>2, <2>4, <2>6
  <1>4. \A p \in P : p.lines \in Seq(Quotable)
    BY Zenon DEF P
  <1> HIDE DEF T, P
  <1> QED
    BY <1>2, <1>3, <1>4

LEMMA NoParagraphs == ParasOf(<< >>) = << >> /\ LinesOf(<< >>) = << >> /\ Cleaned(<< >>) = << >>
  <1>1. [n \in 1..Len(<< >>) |-> << >>[n].paragraphs] = << >>
    OBVIOUS
  <1>2. [n \in 1..Len(<< >>) |-> << >>[n].lines] = << >>
    OBVIOUS
  <1>3. [n \in 1..Len(<< >>) |-> IF Says(<< >>[n]).kind = "prose" THEN <<<< >>[n]>> ELSE << >>] = << >>
    OBVIOUS
  <1> QED
    BY <1>1, <1>2, <1>3, ConcatEmpty DEF ParasOf, LinesOf, Cleaned

-----------------------------------------------------------------------------
(* The pages of a PDF before the one it is at.                             *)
Starts == {Paragraphs[n].start.line : n \in 1..Len(Paragraphs)}

PdfInv ==
    /\ format = "pdf" => pages \in PagesOf
    /\ stage = "source" => at = <<1, 1>>
    /\ stage = "pages" =>
          /\ at[1] <= Len(pages) + 1
          /\ \A p \in 1..at[1] - 1 : pages[p] # "broken"
          /\ Starts = {p \in 1..at[1] - 1 : pages[p] = "text"}
    /\ PdfComplete

LEMMA PagesLength == ASSUME PdfInv, format = "pdf" PROVE Len(pages) \in Nat
  <1>1. pages \in Seq({"text", "scan", "broken"})
    BY SourceAssumption DEF PdfInv
  <1> QED
    BY <1>1

LEMMA InitPdf == PipelineInit => PdfInv
  BY DEF PipelineInit, SourceInit, PdfInv, PdfComplete

LEMMA PageAppended ==
    ASSUME DocumentInv, NEW id, NEW page,
           sections' = Append(sections, [id |-> id, paragraphs |-> <<page>>])
    PROVE  \E Q : Paragraphs' = Paragraphs \o <<page>> /\ Paragraphs \in Seq(Q) /\ page \in Q
  <1> DEFINE sec == [id |-> id, paragraphs |-> <<page>>]
  <1>1. PICK P, T : sections \in Seq(T) /\ \A t \in T : t.paragraphs \in Seq(P)
    BY Common
  <1> DEFINE Q == P \cup {page}
             U == T \cup {sec}
  <1>2. sections \in Seq(U) /\ sec \in U /\ sec.paragraphs = <<page>> /\ <<page>> \in Seq(Q)
    BY <1>1
  <1>3. \A t \in U : t.paragraphs \in Seq(Q)
    <2>1. \A s \in Seq(P) : s \in Seq(Q)
      OBVIOUS
    <2> HIDE DEF Q, sec
    <2> QED
      BY <1>1, <1>2, <2>1
  <1>4. sections' = Append(sections, sec)
    OBVIOUS
  <1> HIDE DEF Q, U, sec
  <1>5. /\ ParasOf(sections) \in Seq(Q)
        /\ ParasOf(Append(sections, sec)) = ParasOf(sections) \o sec.paragraphs
    BY <1>2, <1>3, ParasAppend
  <1>6. Paragraphs' = Paragraphs \o <<page>> /\ Paragraphs \in Seq(Q)
    BY <1>2, <1>4, <1>5 DEF Paragraphs, ParasOf
  <1>7. page \in Q
    BY DEF Q
  <1> QED
    BY <1>6, <1>7

LEMMA ReadPagePdf ==
    ASSUME DocumentInv, PdfInv, ReadPage
    PROVE  PdfInv'
  <1>1. /\ stage = "pages" /\ at[1] <= Len(pages) /\ format = "pdf"
        /\ format' = format /\ pages' = pages
    BY DEF ReadPage, DocumentInv
  <1>2. Len(pages) \in Nat /\ at[1] \in Nat \ {0}
    BY <1>1, PagesLength DEF DocumentInv
  <1>3. /\ \A p \in 1..at[1] - 1 : pages[p] # "broken"
        /\ Starts = {p \in 1..at[1] - 1 : pages[p] = "text"}
    BY <1>1 DEF PdfInv
  <1>4. \A p \in 1..at[1] : p \in 1..at[1] - 1 \/ p = at[1]
    BY <1>2
  <1>5. CASE stage' = "error"
    BY <1>1, <1>5 DEF PdfInv, PdfComplete
  <1>6. ASSUME at' = <<at[1] + 1, 1>>, stage' = stage, pages[at[1]] # "broken",
               Starts' = {p \in 1..at[1] : pages[p] = "text"}
        PROVE  PdfInv'
    <2>1. at'[1] = at[1] + 1 /\ at'[1] - 1 = at[1]
      BY <1>2, <1>6
    <2>2. \A p \in 1..at'[1] - 1 : pages[p] # "broken"
      BY <1>3, <1>4, <1>6, <2>1
    <2>3. at'[1] <= Len(pages) + 1
      BY <1>1, <1>2, <2>1
    <2> QED
      BY <1>1, <1>6, <2>1, <2>2, <2>3 DEF PdfInv, PdfComplete
  <1>7. CASE pages[at[1]] = "scan" /\ at' = <<at[1] + 1, 1>> /\ UNCHANGED <<stage, sections>>
    <2>1. Starts' = Starts
      BY <1>7 DEF Starts, Paragraphs
    <2>2. {p \in 1..at[1] : pages[p] = "text"} = {p \in 1..at[1] - 1 : pages[p] = "text"}
      BY <1>2, <1>4, <1>7
    <2> QED
      BY <1>3, <1>6, <1>7, <2>1, <2>2
  <1>8. CASE /\ pages[at[1]] = "text" /\ at' = <<at[1] + 1, 1>> /\ stage' = stage
             /\ sections' = Append(sections,
                  [id |-> <<"section", counter + 1>>,
                   paragraphs |-> <<[id |-> <<<<"page", at[1]>>, 1>>, lines |-> <<at>>,
                                     start |-> [file |-> Root, line |-> at[1]]]>>])
    <2> DEFINE page == [id |-> <<<<"page", at[1]>>, 1>>, lines |-> <<at>>,
                        start |-> [file |-> Root, line |-> at[1]]]
               sec == [id |-> <<"section", counter + 1>>, paragraphs |-> <<page>>]
    <2>1. page.start.line = at[1] /\ sections' = Append(sections, sec)
      BY <1>8
    <2>2. PICK Q : Paragraphs' = Paragraphs \o <<page>> /\ Paragraphs \in Seq(Q) /\ page \in Q
      <3> HIDE DEF page
      <3> QED
        BY <2>1, PageAppended
    <2> HIDE DEF page, sec
    <2> DEFINE old == Paragraphs
               new == Paragraphs'
               N == Len(old)
    <2> HIDE DEF old, new
    <2>6. old \in Seq(Q) /\ new = old \o <<page>>
      BY <2>2 DEF old, new
    <2>7. /\ N \in Nat /\ Len(new) = N + 1 /\ new[N + 1] = page
          /\ \A n \in 1..N : new[n] = old[n]
      BY <2>6
    <2> HIDE DEF N
    <2>8. {new[n].start.line : n \in 1..N + 1} = {old[n].start.line : n \in 1..N} \cup {at[1]}
      BY <2>1, <2>7
    <2>9. Starts' = Starts \cup {at[1]}
      BY <2>7, <2>8 DEF Starts, old, new, N
    <2>10. {p \in 1..at[1] : pages[p] = "text"} = {p \in 1..at[1] - 1 : pages[p] = "text"} \cup {at[1]}
      BY <1>2, <1>4, <1>8
    <2> QED
      BY <1>3, <1>6, <1>8, <2>9, <2>10
  <1> QED
    BY <1>5, <1>7, <1>8 DEF ReadPage

LEMMA PdfStep == DocumentInv /\ PdfInv /\ [PipelineNext]_pipelineVars => PdfInv'
  <1> SUFFICES ASSUME DocumentInv, PdfInv, [PipelineNext]_pipelineVars PROVE PdfInv'
    OBVIOUS
  <1>1. CASE SourceNext
    <2>1. CASE Resolve
      BY <2>1 DEF Resolve, docVars, PdfInv, PdfComplete
    <2>2. CASE BeginMerge \/ Unsupported
      BY <2>2 DEF BeginMerge, Unsupported, PdfInv, PdfComplete
    <2>3. CASE ReadLine \/ EndFragment \/ Finalize
      <3>1. /\ stage = "merge" /\ format = "latex" /\ format' = format
            /\ stage' \in {"merge", "panic", "done"}
        BY <2>3 DEF ReadLine, EndFragment, Finalize, Panic, DocumentInv
      <3> QED
        BY <3>1 DEF PdfInv, PdfComplete
    <2>4. CASE OpenPdf
      <3>1. /\ stage = "source" /\ format = "pdf" /\ sections = << >> /\ at = <<1, 1>>
            /\ stage' \in {"pages", "error"} /\ UNCHANGED <<format, pages, at, sections>>
        BY <2>4 DEF OpenPdf, PdfInv, DocumentInv
      <3>2. Paragraphs' = << >>
        BY <3>1, NoParagraphs DEF Paragraphs, ParasOf
      <3>3. Starts' = {}
        BY <3>2 DEF Starts
      <3>4. Len(pages) \in Nat
        BY <3>1, PagesLength
      <3> QED
        BY <3>1, <3>3, <3>4 DEF PdfInv, PdfComplete
    <2>5. CASE ReadPage
      BY <2>5, ReadPagePdf
    <2>6. CASE ClosePdf
      <3>1. /\ stage = "pages" /\ at[1] > Len(pages) /\ format = "pdf"
            /\ stage' = IF sections = << >> THEN "error" ELSE "done"
            /\ UNCHANGED <<format, pages, at, sections>>
        BY <2>6 DEF ClosePdf, DocumentInv
      <3>2. Len(pages) \in Nat /\ at[1] \in Nat
        BY <3>1, PagesLength DEF DocumentInv
      <3>3. at[1] - 1 = Len(pages)
        BY <3>1, <3>2 DEF PdfInv
      <3>4. Paragraphs' = Paragraphs /\ Starts' = Starts
        BY <3>1 DEF Paragraphs, Starts
      <3>5. PdfComplete'
        BY <3>1, <3>3, <3>4 DEF PdfInv, PdfComplete, Starts
      <3> QED
        BY <3>1, <3>5 DEF PdfInv
    <2> QED
      BY <1>1, <2>1, <2>2, <2>3, <2>4, <2>5, <2>6 DEF SourceNext
  <1>2. CASE UNCHANGED sourceVars
    <2>1. UNCHANGED <<format, pages, stage, at, sections>>
      BY <1>2 DEF sourceVars
    <2>2. Paragraphs' = Paragraphs /\ Starts' = Starts
      BY <2>1 DEF Paragraphs, Starts
    <2> QED
      BY <2>1, <2>2 DEF PdfInv, PdfComplete
  <1>3. SourceNext \/ UNCHANGED sourceVars
    BY DEF PipelineNext, pipelineVars, sourceVars, Parse
  <1> QED
    BY <1>1, <1>2, <1>3

(* A PDF of any length is reviewed with the text of all its pages, or not  *)
(* at all (parse_pdf).                                                     *)
THEOREM PdfAlwaysComplete == PipelineSpec => []PdfComplete
  <1>1. PdfInv => PdfComplete
    BY DEF PdfInv
  <1> QED
    BY <1>1, InitPdf, PdfStep, DocumentAlways, PTL DEF PipelineSpec

-----------------------------------------------------------------------------
(* The prose of the project, fragment by fragment, as the code has it.     *)
Pieces(i) == [k \in 1..Len(text[FileOf(i)]) |->
                 IF Says(<<i, k>>).kind = "prose" THEN << <<i, k>> >> ELSE << >>]

Prose == Concat([i \in 1..Len(fragments) |-> Concat(Pieces(i))])

(* It is all in the paragraphs, in this order.                             *)
InFragmentOrder ==
    stage = "done" /\ format = "latex" =>
        /\ LinesOf(Paragraphs) = Prose
        /\ Located => \A n \in 1..Len(Paragraphs) : Placed(Paragraphs[n])

(* The prose before element k of fragment i.                               *)
LinesUpto(i, m) == [k \in 1..m |-> <<i, k>>]
ProseOf(i, m) == Cleaned(LinesUpto(i, m))
Whole(i) == ProseOf(i, Len(text[FileOf(i)]))
ProseBefore(i, k) == Concat([j \in 1..i - 1 |-> Whole(j)]) \o ProseOf(i, k - 1)

Piece(e) == IF Says(e).kind = "prose" THEN <<e>> ELSE << >>
Pairs == Nat \X Nat

LEMMA ProseOfType ==
    ASSUME NEW i \in Nat, NEW m \in Nat
    PROVE  /\ ProseOf(i, m) \in Seq(Pairs) /\ ProseOf(i, 0) = << >>
           /\ ProseOf(i, m + 1) = ProseOf(i, m) \o Piece(<<i, m + 1>>)
  <1>1. \A n \in Nat : LinesUpto(i, n) \in Seq(Pairs) /\ Len(LinesUpto(i, n)) = n
    <2> SUFFICES ASSUME NEW n \in Nat PROVE LinesUpto(i, n) \in Seq(Pairs) /\ Len(LinesUpto(i, n)) = n
      OBVIOUS
    <2>1. LinesUpto(i, n) \in [1..n -> Pairs]
      BY DEF LinesUpto, Pairs
    <2> QED
      BY <2>1, Sequenced
  <1>2. <<i, m + 1>> \in Pairs /\ m + 1 \in Nat
    BY DEF Pairs
  <1>3. LinesUpto(i, m + 1) = Append(LinesUpto(i, m), <<i, m + 1>>)
    <2>1. /\ \A n \in 1..m : LinesUpto(i, m + 1)[n] = LinesUpto(i, m)[n]
          /\ LinesUpto(i, m + 1)[m + 1] = <<i, m + 1>>
      BY DEF LinesUpto
    <2> DEFINE a == LinesUpto(i, m)
               b == LinesUpto(i, m + 1)
               x == <<i, m + 1>>
    <2>2. /\ a \in Seq(Pairs) /\ b \in Seq(Pairs) /\ x \in Pairs
          /\ Len(b) = Len(a) + 1 /\ b[Len(a) + 1] = x /\ \A n \in 1..Len(a) : b[n] = a[n]
      BY <1>1, <1>2, <2>1
    <2> HIDE DEF a, b, x, Pairs
    <2>3. b = Append(a, x)
      BY <2>2, MapAppend
    <2> QED
      BY <2>3 DEF a, b, x
  <1>4. /\ Cleaned(LinesUpto(i, m)) \in Seq(Pairs)
        /\ Cleaned(Append(LinesUpto(i, m), <<i, m + 1>>))
             = Cleaned(LinesUpto(i, m)) \o Piece(<<i, m + 1>>)
    BY <1>1, <1>2, CleanedAppend DEF Piece
  <1>5. LinesUpto(i, 0) = << >>
    BY DEF LinesUpto
  <1> QED
    BY <1>3, <1>4, <1>5, NoParagraphs DEF ProseOf

LEMMA PieceJoined ==
    ASSUME NEW l \in Seq(Pairs), NEW c \in Seq(Pairs), NEW e \in Pairs
    PROVE  Piece(e) \in Seq(Pairs) /\ l \o (c \o Piece(e)) = (l \o c) \o Piece(e)
  <1> HIDE DEF Pairs
  <1>1. Piece(e) \in Seq(Pairs)
    BY DEF Piece
  <1> DEFINE z == Piece(e)
  <1>2. z \in Seq(Pairs)
    BY <1>1
  <1> HIDE DEF z
  <1>3. l \o (c \o z) = (l \o c) \o z
    BY <1>2, ConcatAssociative, SMTT(30)
  <1> QED
    BY <1>2, <1>3 DEF z

LEMMA ProseNext ==
    ASSUME NEW i \in Nat \ {0}, NEW k \in Nat \ {0}, ResolverTypeOK, i <= Len(fragments) + 1
    PROVE  /\ ProseBefore(i, k) \in Seq(Pairs)
           /\ ProseBefore(i, k + 1) = ProseBefore(i, k) \o Piece(<<i, k>>)
           /\ i <= Len(fragments) /\ k = Len(text[FileOf(i)]) + 1
                => ProseBefore(i + 1, 1) = ProseBefore(i, k)
  <1>1. \A j \in 1..Len(fragments) : Len(text[FileOf(j)]) \in Nat
    <2>1. \A j \in 1..Len(fragments) : FileOf(j) \in Files
      <3>1. fragments \in Seq(FragmentType)
        BY DEF ResolverTypeOK, FragmentType
      <3>2. \A j \in 1..Len(fragments) : fragments[j] \in FragmentType
        <4> HIDE DEF FragmentType
        <4> QED
          BY <3>1
      <3> QED
        BY <3>2 DEF FileOf, FragmentType
    <2>2. \A f \in Files : Len(text[f]) \in Nat
      <3> SUFFICES ASSUME NEW f \in Files PROVE Len(text[f]) \in Nat
        OBVIOUS
      <3>1. text[f] \in Seq(Elements)
        BY DEF ResolverTypeOK
      <3> HIDE DEF Elements
      <3> QED
        BY <3>1
    <2> QED
      BY <2>1, <2>2
  <1>2. Len(fragments) \in Nat
    BY Lengths
  <1>3. \A j \in 1..Len(fragments) : Whole(j) \in Seq(Pairs)
    <2> SUFFICES ASSUME NEW j \in 1..Len(fragments) PROVE Whole(j) \in Seq(Pairs)
      OBVIOUS
    <2>1. j \in Nat /\ Len(text[FileOf(j)]) \in Nat
      BY <1>1, <1>2
    <2> QED
      BY <2>1, ProseOfType DEF Whole
  <1> DEFINE upto(n) == [j \in 1..n |-> Whole(j)]
  <1>4. upto(i - 1) \in [1..i - 1 -> Seq(Pairs)]
    <2>1. \A j \in 1..i - 1 : j \in 1..Len(fragments)
      BY <1>2
    <2> QED
      BY <1>3, <2>1
  <1>5. Concat(upto(i - 1)) \in Seq(Pairs)
    <2>1. i - 1 \in Nat
      OBVIOUS
    <2> DEFINE Q == Seq(Pairs)
    <2>2. upto(i - 1) \in [1..i - 1 -> Q]
      BY <1>4
    <2> HIDE DEF Q, upto
    <2>3. upto(i - 1) \in Seq(Q)
      BY <2>1, <2>2, Sequenced
    <2> QED
      BY <2>3, ConcatType DEF Q
  <1>6. /\ ProseOf(i, k - 1) \in Seq(Pairs) /\ ProseOf(i, 0) = << >> /\ ProseOf(i + 1, 0) = << >>
        /\ ProseOf(i, k) = ProseOf(i, k - 1) \o Piece(<<i, k>>)
    <2>1. i \in Nat /\ i + 1 \in Nat /\ k - 1 \in Nat /\ (k - 1) + 1 = k
      OBVIOUS
    <2>2. /\ ProseOf(i, k - 1) \in Seq(Pairs) /\ ProseOf(i, 0) = << >>
          /\ ProseOf(i, (k - 1) + 1) = ProseOf(i, k - 1) \o Piece(<<i, (k - 1) + 1>>)
      BY <2>1, ProseOfType, Zenon
    <2>3. ProseOf(i + 1, 0) = << >>
      BY <2>1, ProseOfType, Zenon
    <2> QED
      BY <2>1, <2>2, <2>3
  <1>7. <<i, k>> \in Pairs
    BY DEF Pairs
  <1> DEFINE before == Concat(upto(i - 1))
  <1>8. ProseBefore(i, k) = before \o ProseOf(i, k - 1)
    BY DEF ProseBefore
  <1>9. ProseBefore(i, k + 1) = before \o ProseOf(i, k)
    <2>1. (k + 1) - 1 = k
      OBVIOUS
    <2> QED
      BY <2>1 DEF ProseBefore
  <1>10. before \in Seq(Pairs)
    BY <1>5
  <1>11. ASSUME i <= Len(fragments), k = Len(text[FileOf(i)]) + 1
         PROVE  ProseBefore(i + 1, 1) = ProseBefore(i, k)
    <2>1. (i + 1) - 1 = i /\ 1 - 1 = 0 /\ i \in 1..Len(fragments)
      BY <1>2, <1>11
    <2>2. ProseBefore(i + 1, 1) = Concat(upto(i)) \o << >>
      BY <1>6, <2>1 DEF ProseBefore
    <2>3. upto(i) \in [1..i -> Seq(Pairs)]
      <3>1. \A j \in 1..i : j \in 1..Len(fragments)
        BY <1>2, <1>11
      <3> QED
        BY <1>3, <3>1
    <2>4. upto(i)[i] = Whole(i) /\ \A j \in 1..i - 1 : upto(i)[j] = upto(i - 1)[j]
      OBVIOUS
    <2>5. Concat(upto(i)) = before \o Whole(i) /\ Concat(upto(i)) \in Seq(Pairs)
      <3> DEFINE M == i - 1
                 a == upto(i - 1)
                 b == upto(i)
      <3>1. M \in Nat /\ M + 1 = i
        OBVIOUS
      <3>2. a \in [1..M -> Seq(Pairs)] /\ b \in [1..M + 1 -> Seq(Pairs)] /\ \A j \in 1..M : b[j] = a[j]
        BY <1>4, <2>3, <2>4, <3>1
      <3> HIDE DEF M, a, b
      <3>3. Concat(b) = Concat(a) \o b[M + 1] /\ Concat(b) \in Seq(Pairs)
        BY <3>1, <3>2, ConcatMore
      <3> QED
        BY <2>4, <3>1, <3>3 DEF a, b
    <2>6. Whole(i) = ProseOf(i, k - 1)
      <3>1. Len(text[FileOf(i)]) \in Nat
        BY <1>1, <2>1
      <3>2. k - 1 = Len(text[FileOf(i)])
        BY <1>11, <3>1
      <3> QED
        BY <3>2 DEF Whole
    <2> HIDE DEF before, upto
    <2> QED
      BY <1>8, <2>2, <2>5, <2>6
  <1> HIDE DEF before, upto, Pairs
  <1>12. before \o (ProseOf(i, k - 1) \o Piece(<<i, k>>)) = (before \o ProseOf(i, k - 1)) \o Piece(<<i, k>>)
    <2>1. ProseOf(i, k - 1) \in Seq(Pairs)
      BY <1>6
    <2> QED
      BY <1>7, <1>10, <2>1, PieceJoined, Zenon
  <1>13. before \o ProseOf(i, k - 1) \in Seq(Pairs)
    BY <1>6, <1>10
  <1> QED
    BY <1>6, <1>8, <1>9, <1>11, <1>12, <1>13

-----------------------------------------------------------------------------
(* The paragraphs so far, those of the open section included.              *)
AllParas == ParasOf(sections) \o current.paragraphs
Grown == IF Kept THEN Append(AllParas, Open) ELSE AllParas

LEMMA ParasTyped ==
    ASSUME DocumentInv, format # "pdf"
    PROVE  \E Q : /\ AllParas \in Seq(Q) /\ Open \in Q
                  /\ \A p \in Q : p.lines \in Seq(Quotable)
  <1>1. PICK P, T : /\ sections \in Seq(T) /\ current \in T
                    /\ \A t \in T : t.paragraphs \in Seq(P)
                    /\ \A p \in P : p.lines \in Seq(Quotable)
    BY Common
  <1> HIDE DEF Quotable
  <1>2. ParasOf(sections) \in Seq(P) /\ current.paragraphs \in Seq(P)
    BY <1>1, ParasAppend
  <1>3. AllParas \in Seq(P)
    BY <1>2 DEF AllParas
  <1>4. Open.lines \in Seq(Quotable)
    BY CleanedType DEF Open, DocumentInv
  <1> HIDE DEF Open, AllParas
  <1>5. AllParas \in Seq(P \cup {Open})
    BY <1>3
  <1> QED
    BY <1>1, <1>4, <1>5

LEMMA GrownParas ==
    ASSUME DocumentInv, format # "pdf"
    PROVE  /\ ParasOf(sections) \o Flushed.paragraphs = Grown
           /\ ParasOf(Closed(Flushed)) \o << >> = Grown
           /\ LinesOf(Grown) \o << >> = LinesOf(AllParas) \o Cleaned(pending)
           /\ LinesOf(AllParas) \in Seq(Quotable) /\ Cleaned(pending) \in Seq(Quotable)
           /\ ParasOf(Closed(current)) = AllParas
  <1>1. PICK P, T : /\ sections \in Seq(T) /\ current \in T
                    /\ \A t \in T : SectionOK(t) /\ t.paragraphs \in Seq(P)
                    /\ \A p \in P : p.lines \in Seq(Quotable)
    BY Common
  <1>2. Cleaned(pending) \in Seq(Quotable) /\ Open.lines = Cleaned(pending)
    BY CleanedType DEF Open, DocumentInv
  <1>3. ParasOf(sections) \in Seq(P) /\ current.paragraphs \in Seq(P) /\ AllParas \in Seq(P)
    <2>1. ParasOf(sections) \in Seq(P) /\ current.paragraphs \in Seq(P)
      BY <1>1, ParasAppend
    <2> QED
      BY <2>1 DEF AllParas
  <1> DEFINE Q == P \cup {Open}
             old == ParasOf(sections)
             cur == current.paragraphs
  <1>4. old \in Seq(Q) /\ cur \in Seq(Q) /\ Open \in Q /\ AllParas = old \o cur
    BY <1>3 DEF AllParas
  <1>5. \A p \in Q : p.lines \in Seq(Quotable)
    <2> HIDE DEF Quotable, Open
    <2> QED
      BY <1>1, <1>2
  <1>6. Flushed.paragraphs = IF Kept THEN Append(cur, Open) ELSE cur
    <2>1. SectionOK(current)
      BY DEF DocumentInv
    <2>2. PICK id, ps : current = [id |-> id, paragraphs |-> ps]
      BY <2>1 DEF SectionOK
    <2>3. \E id1 : Opened = [id |-> id1, paragraphs |-> ps]
      BY <2>2 DEF Opened, NoSection
    <2>4. PICK id1 : Opened = [id |-> id1, paragraphs |-> ps]
      BY <2>3
    <2> HIDE DEF Open, Opened, Kept
    <2>5. [Opened EXCEPT !.paragraphs = Append(@, Open)] = [id |-> id1, paragraphs |-> Append(ps, Open)]
      BY <2>4
    <2>6. Flushed = IF Kept THEN [id |-> id1, paragraphs |-> Append(ps, Open)] ELSE current
      BY <2>5 DEF Flushed
    <2> QED
      BY <2>2, <2>6
  <1> HIDE DEF Q, old, cur, Open, Kept, AllParas
  <1>7. Append(cur, Open) \in Seq(Q) /\ old \o Append(cur, Open) = Append(old \o cur, Open)
    <2>1. Append(cur, Open) = cur \o <<Open>> /\ Append(old \o cur, Open) = (old \o cur) \o <<Open>>
          /\ <<Open>> \in Seq(Q) /\ Append(cur, Open) \in Seq(Q)
      BY <1>4, AppendIsConcat
    <2>2. (old \o cur) \o <<Open>> = old \o (cur \o <<Open>>)
      BY <1>4, <2>1, ConcatAssociative
    <2> QED
      BY <2>1, <2>2
  <1>8. old \o Flushed.paragraphs = Grown
    BY <1>4, <1>6, <1>7 DEF Grown
  <1>9. ASSUME NEW sec, SectionOK(sec), sec.paragraphs \in Seq(Q)
        PROVE  ParasOf(Closed(sec)) = old \o sec.paragraphs
    <2>1. CASE sec = NoSection
      <3>1. Closed(sec) = sections /\ sec.paragraphs = << >>
        BY <2>1 DEF Closed, NoSection
      <3> QED
        BY <1>4, <3>1 DEF old
    <2>2. CASE sec # NoSection
      <3>1. Closed(sec) = Append(sections, sec)
        BY <2>2 DEF Closed
      <3> DEFINE U == T \cup {sec}
      <3>2. sections \in Seq(U) /\ sec \in U
        BY <1>1
      <3>3. \A t \in U : t.paragraphs \in Seq(Q)
        <4>1. \A s \in Seq(P) : s \in Seq(Q)
          BY DEF Q
        <4> QED
          BY <1>1, <1>9, <4>1
      <3> HIDE DEF U
      <3>4. ParasOf(Append(sections, sec)) = ParasOf(sections) \o sec.paragraphs
        BY <3>2, <3>3, ParasAppend
      <3> QED
        BY <3>1, <3>4 DEF old
    <2> QED
      BY <2>1, <2>2
  <1>10. ParasOf(Closed(Flushed)) \o << >> = Grown
    <2>1. SectionOK(Flushed)
      BY FlushedOK
    <2>2. Flushed.paragraphs \in Seq(Q)
      BY <1>4, <1>6, <1>7
    <2>3. ParasOf(Closed(Flushed)) = old \o Flushed.paragraphs /\ old \o Flushed.paragraphs \in Seq(Q)
      BY <1>4, <1>9, <2>1, <2>2
    <2> HIDE DEF Grown
    <2> QED
      BY <1>8, <2>3
  <1>11. ParasOf(Closed(current)) = AllParas
    <2>1. SectionOK(current)
      BY DEF DocumentInv
    <2> QED
      BY <1>4, <1>9, <2>1 DEF cur
  <1>12. AllParas \in Seq(Q)
    BY <1>4
  <1>13. /\ LinesOf(AllParas) \in Seq(Quotable)
         /\ LinesOf(Append(AllParas, Open)) = LinesOf(AllParas) \o Cleaned(pending)
    <2> HIDE DEF Quotable
    <2>1. /\ LinesOf(AllParas) \in Seq(Quotable)
          /\ LinesOf(Append(AllParas, Open)) = LinesOf(AllParas) \o Open.lines
      BY <1>4, <1>5, <1>12, LinesAppend
    <2> QED
      BY <1>2, <2>1
  <1>14. LinesOf(Grown) \o << >> = LinesOf(AllParas) \o Cleaned(pending)
    <2> DEFINE L == LinesOf(AllParas)
               C == Cleaned(pending)
    <2>1. L \in Seq(Quotable) /\ C \in Seq(Quotable)
      BY <1>2, <1>13
    <2>2. LinesOf(Grown) = IF Kept THEN L \o C ELSE L
      BY <1>13 DEF Grown
    <2>3. Kept <=> C # << >>
      BY DEF Kept
    <2> HIDE DEF L, C, Quotable
    <2>4. (L \o C) \o << >> = L \o C /\ L \o << >> = L
      BY <2>1
    <2>5. LinesOf(Grown) \o << >> = L \o C
      BY <2>2, <2>3, <2>4
    <2> QED
      BY <2>5 DEF L, C
  <1> QED
    BY <1>2, <1>8, <1>10, <1>11, <1>13, <1>14 DEF old

-----------------------------------------------------------------------------
(* Only such elements are in between.                                      *)
PassedOver(i, k, m) == \A j \in k..m - 1 : text[FileOf(i)][j].kind \in Passed

(* par is the open paragraph before element k of fragment i.               *)
OpenBefore(par, i, k) ==
    /\ par \in Seq({i} \X Nat)
    /\ par # << >> =>
         LET first == par[1][2]
             c == Cleaned(par)
         IN  /\ first \in 1..k - 1
             /\ IF c = << >> THEN PassedOver(i, first, k)
                ELSE c[1][2] \in first..k - 1 /\ PassedOver(i, first, c[1][2])

(* Paragraphs paras and the open one are the prose before element k of     *)
(* fragment i.                                                             *)
MergedTo(paras, par, i, k) ==
    /\ i <= Len(fragments) + 1
    /\ k <= IF i <= Len(fragments) THEN Len(text[FileOf(i)]) + 1 ELSE 1
    /\ OpenBefore(par, i, k)
    /\ LinesOf(paras) \o Cleaned(par) = ProseBefore(i, k)
    /\ Located => \A n \in 1..Len(paras) : Placed(paras[n])

ProseInv ==
    /\ stage = "source" => at = <<1, 1>>
    /\ stage = "merge" => MergedTo(AllParas, pending, at[1], at[2])
    /\ InFragmentOrder

LEMMA PlacedSame ==
    ASSUME UNCHANGED <<text, fragments>>
    PROVE  \A p : Placed(p)' <=> Placed(p)
  <1> SUFFICES ASSUME NEW p PROVE Placed(p)' <=> Placed(p)
    OBVIOUS
  <1>1. \A f, m, kind : Before(f, m, kind)' = Before(f, m, kind)
    BY DEF Before
  <1>2. \A f, m : BodyLine(f, m)' = BodyLine(f, m) /\ FileLine(f, m)' = FileLine(f, m)
    BY <1>1, Zenon DEF BodyLine, FileLine
  <1>3. \A f : NoEnvironment(f)' <=> NoEnvironment(f)
    BY DEF NoEnvironment
  <1>4. \A n : FileOf(n)' = FileOf(n)
    BY DEF FileOf
  <1> QED
    BY <1>2, <1>3, <1>4, Zenon DEF Placed

LEMMA Moved ==
    ASSUME UNCHANGED <<text, fragments>>, NEW paras, NEW par, NEW i, NEW k,
           at' = <<i, k>>, pending' = par, AllParas' = paras, MergedTo(paras, par, i, k)
    PROVE  MergedTo(AllParas, pending, at[1], at[2])'
  <1>1. at'[1] = i /\ at'[2] = k
    OBVIOUS
  <1>3. \A p : Placed(p)' <=> Placed(p)
    BY PlacedSame
  <1>4. \A x : Cleaned(x)' = Cleaned(x)
    BY Zenon DEF Cleaned, Says, FileOf
  <1>5. \A x, y : ProseBefore(x, y)' = ProseBefore(x, y)
    <2>1. \A x, y : ProseOf(x, y)' = ProseOf(x, y)
      BY Zenon DEF ProseOf, Cleaned, Says, FileOf
    <2>2. \A x : Whole(x)' = Whole(x)
      BY <2>1, Zenon DEF Whole, FileOf
    <2> QED
      BY <2>1, <2>2, Zenon DEF ProseBefore
  <1>6. ProseBefore(at[1], at[2])' = ProseBefore(i, k)
    <2>1. ProseBefore(at[1], at[2])' = ProseBefore(i, k)'
      BY <1>1, Zenon DEF ProseBefore, Whole, ProseOf, Cleaned, Says, FileOf
    <2> QED
      BY <1>5, <2>1, Zenon
  <1>7. OpenBefore(pending, at[1], at[2])'
    <2>1. OpenBefore(par, i, k)
      BY Zenon DEF MergedTo
    <2>2. \A x, y, z : PassedOver(x, y, z)' <=> PassedOver(x, y, z)
      BY DEF PassedOver, FileOf
    <2>3. OpenBefore(par, i, k)' <=> OpenBefore(par, i, k)
      BY <1>4, <2>2, Zenon DEF OpenBefore
    <2>4. OpenBefore(pending, at[1], at[2])' <=> OpenBefore(par, i, k)'
      BY <1>1, Zenon DEF OpenBefore, Cleaned, PassedOver, Says, FileOf
    <2> QED
      BY <2>1, <2>3, <2>4
  <1>8. LinesOf(AllParas)' = LinesOf(paras) /\ Cleaned(pending)' = Cleaned(par)
    BY <1>4, Zenon DEF LinesOf, Cleaned
  <1>9. (Located' <=> Located) /\ \A x : FileOf(x)' = FileOf(x)
    BY DEF Located, FileOf
  <1>10. (Located => \A n \in 1..Len(AllParas) : Placed(AllParas[n]))'
    <2>1. Located => \A n \in 1..Len(paras) : Placed(paras[n])
      BY Zenon DEF MergedTo
    <2> DEFINE all == AllParas'
    <2>2. all = paras
      OBVIOUS
    <2> QED
      BY <1>3, <1>9, <2>1, <2>2, Zenon
  <1>11. /\ (i <= Len(fragments) + 1)'
         /\ (k <= IF i <= Len(fragments) THEN Len(text[FileOf(i)]) + 1 ELSE 1)'
         /\ LinesOf(paras) \o Cleaned(par) = ProseBefore(i, k)
    BY Zenon DEF MergedTo, FileOf
  <1> QED
    BY <1>1, <1>6, <1>7, <1>8, <1>10, <1>11, Zenon DEF MergedTo, FileOf

LEMMA FileAt ==
    ASSUME ResolverTypeOK, NEW i \in Nat \ {0}, i <= Len(fragments)
    PROVE  FileOf(i) \in Files /\ text[FileOf(i)] \in Seq(Elements) /\ Len(text[FileOf(i)]) \in Nat
  <1>1. fragments \in Seq(FragmentType) /\ Len(fragments) \in Nat
    BY Lengths DEF ResolverTypeOK, FragmentType
  <1>2. i \in 1..Len(fragments)
    BY <1>1
  <1>3. fragments[i] \in FragmentType
    <2> HIDE DEF FragmentType
    <2> QED
      BY <1>1, <1>2
  <1>4. FileOf(i) \in Files
    BY <1>3 DEF FileOf, FragmentType
  <1>5. text[FileOf(i)] \in Seq(Elements)
    BY <1>4 DEF ResolverTypeOK
  <1>6. Len(text[FileOf(i)]) \in Nat
    <2> HIDE DEF Elements
    <2> QED
      BY <1>5
  <1> QED
    BY <1>4, <1>5, <1>6

LEMMA OpenPlaced ==
    ASSUME ResolverTypeOK, Located, Kept, NEW i \in Nat \ {0}, NEW k \in Nat \ {0},
           OpenBefore(pending, i, k), i <= Len(fragments) + 1,
           k <= IF i <= Len(fragments) THEN Len(text[FileOf(i)]) + 1 ELSE 1
    PROVE  Placed(Open)
  <1> DEFINE S == {i} \X Nat
             c == Cleaned(pending)
             first == pending[1][2]
  <1>1. pending \in Seq(S) /\ c # << >>
    BY DEF OpenBefore, Kept
  <1>2. pending # << >>
    BY <1>1, NoParagraphs
  <1>3. <<i, 0>> \in S
    OBVIOUS
  <1>4. c \in Seq(S)
    <2> HIDE DEF S, c
    <2>1. Cleaned(pending) \in Seq(S)
      BY <1>1, <1>3, CleanedAppend
    <2> QED
      BY <2>1 DEF c
  <1>5. /\ first \in 1..k - 1 /\ c[1][2] \in first..k - 1 /\ PassedOver(i, first, c[1][2])
    BY <1>1, <1>2 DEF OpenBefore
  <1> HIDE DEF c
  <1>6. pending[1] \in S /\ \A e \in Range(c) : e \in S
    <2> HIDE DEF S
    <2>1. pending[1] \in S
      BY <1>1, <1>2
    <2>2. \A n \in 1..Len(c) : c[n] \in S /\ DOMAIN c = 1..Len(c)
      BY <1>4
    <2> QED
      BY <2>1, <2>2, <1>4 DEF Range
  <1>7. pending[1][1] = i /\ \A e \in Range(c) : e[1] = i
    BY <1>6
  <1>8. /\ Open.lines = c /\ Open.start = Location(i, first)
    BY <1>7 DEF Open, c
  <1>9. Open.start.file = FileOf(i) /\ Open.start.line = BodyLine(FileOf(i), first)
    BY <1>8 DEF Location
  <1>10. i <= Len(fragments) /\ first <= Len(text[FileOf(i)])
    <2>1. Len(fragments) \in Nat
      BY Lengths
    <2>2. i <= Len(fragments) => Len(text[FileOf(i)]) \in Nat
      BY FileAt
    <2> QED
      BY <1>5, <2>1, <2>2
  <1>11. ASSUME NoEnvironment(FileOf(i))
         PROVE  BodyLine(FileOf(i), first) = FileLine(FileOf(i), first)
    <2>1. Len(text[FileOf(i)]) \in Nat
      BY <1>10, FileAt
    <2>2. \A j \in 1..first - 1 : j \in 1..Len(text[FileOf(i)])
      BY <1>5, <1>10, <2>1
    <2>3. /\ {j \in 1..first - 1 : text[FileOf(i)][j].kind = "abstract"} = {}
          /\ {j \in 1..first - 1 : text[FileOf(i)][j].kind = "bibliography"} = {}
      BY <1>11, <2>2 DEF NoEnvironment
    <2>4. Before(FileOf(i), first, "abstract") = 0 /\ Before(FileOf(i), first, "bibliography") = 0
      BY <2>3, FS_EmptySet DEF Before
    <2>5. first \in Nat /\ ENV_LINES \in Nat
      BY <1>5, SourceAssumption
    <2>6. BodyLine(FileOf(i), first) = first + 0 + 0
      BY <2>4 DEF BodyLine
    <2>7. FileLine(FileOf(i), first) = first + (ENV_LINES - 1) * (0 + 0)
      BY <2>4 DEF FileLine
    <2>8. (ENV_LINES - 1) * (0 + 0) = 0
      BY <2>5
    <2> QED
      BY <2>5, <2>6, <2>7, <2>8
  <1>12. \A e \in Range(Open.lines) : FileOf(e[1]) = Open.start.file
    BY <1>7, <1>8, <1>9
  <1>13. first \in 1..c[1][2] /\ c[1][2] = Open.lines[1][2]
    BY <1>5, <1>8
  <1>14. \A j \in first..Open.lines[1][2] - 1 : text[Open.start.file][j].kind \in Passed
    BY <1>5, <1>9, <1>13 DEF PassedOver
  <1> HIDE DEF first, S
  <1> QED
    BY <1>9, <1>11, <1>12, <1>13, <1>14, Zenon DEF Placed

LEMMA GrownPlaced ==
    ASSUME ResolverTypeOK, DocumentInv, format # "pdf", NEW i \in Nat \ {0}, NEW k \in Nat \ {0},
           MergedTo(AllParas, pending, i, k)
    PROVE  Located => \A n \in 1..Len(Grown) : Placed(Grown[n])
  <1> SUFFICES ASSUME Located PROVE \A n \in 1..Len(Grown) : Placed(Grown[n])
    OBVIOUS
  <1>1. \A n \in 1..Len(AllParas) : Placed(AllParas[n])
    BY DEF MergedTo
  <1>2. Kept => Placed(Open)
    BY OpenPlaced DEF MergedTo
  <1>3. PICK Q : AllParas \in Seq(Q) /\ Open \in Q
    BY ParasTyped
  <1> HIDE DEF AllParas, Open, Placed
  <1>4. /\ Len(Append(AllParas, Open)) = Len(AllParas) + 1 /\ Len(AllParas) \in Nat
        /\ \A n \in 1..Len(AllParas) : Append(AllParas, Open)[n] = AllParas[n]
        /\ Append(AllParas, Open)[Len(AllParas) + 1] = Open
    BY <1>3, Appended
  <1>5. \A n \in 1..Len(AllParas) + 1 : n \in 1..Len(AllParas) \/ n = Len(AllParas) + 1
    BY <1>4
  <1> QED
    BY <1>1, <1>2, <1>4, <1>5 DEF Grown

-----------------------------------------------------------------------------
(* What each line does to the merge.                                       *)
LEMMA NothingOpen == \A i, k : OpenBefore(<< >>, i, k)
  BY DEF OpenBefore

LEMMA LineFlushed ==
    ASSUME ResolverTypeOK, DocumentInv, format # "pdf", NEW i \in Nat \ {0}, NEW k \in Nat \ {0},
           MergedTo(AllParas, pending, i, k),
           i <= Len(fragments), k <= Len(text[FileOf(i)]), Says(<<i, k>>).kind # "prose"
    PROVE  MergedTo(Grown, << >>, i, k + 1)
  <1>1. /\ LinesOf(Grown) \o << >> = LinesOf(AllParas) \o Cleaned(pending)
        /\ LinesOf(AllParas) \o Cleaned(pending) = ProseBefore(i, k)
    BY GrownParas DEF MergedTo
  <1>2. ProseBefore(i, k) \in Seq(Pairs) /\ ProseBefore(i, k + 1) = ProseBefore(i, k) \o << >>
    <2>1. Piece(<<i, k>>) = << >> /\ i <= Len(fragments) + 1
      BY DEF Piece, MergedTo
    <2> QED
      BY <2>1, ProseNext
  <1>3. ProseBefore(i, k + 1) = ProseBefore(i, k)
    <2> DEFINE p == ProseBefore(i, k)
    <2>1. p \in Seq(Pairs)
      BY <1>2
    <2> HIDE DEF p, Pairs
    <2>2. p \o << >> = p
      BY <2>1
    <2> QED
      BY <1>2, <2>2 DEF p
  <1>4. LinesOf(Grown) \o Cleaned(<< >>) = ProseBefore(i, k + 1)
    BY <1>1, <1>3, NoParagraphs
  <1>5. Len(text[FileOf(i)]) \in Nat /\ Len(fragments) \in Nat
    BY FileAt, Lengths
  <1>6. i <= Len(fragments) + 1 /\ k + 1 <= Len(text[FileOf(i)]) + 1
    BY <1>5
  <1> QED
    BY <1>4, <1>6, NothingOpen, GrownPlaced DEF MergedTo

LEMMA FragmentFlushed ==
    ASSUME ResolverTypeOK, DocumentInv, format # "pdf", NEW i \in Nat \ {0}, NEW k \in Nat \ {0},
           MergedTo(AllParas, pending, i, k), i <= Len(fragments), k > Len(text[FileOf(i)])
    PROVE  MergedTo(Grown, << >>, i + 1, 1)
  <1>1. /\ LinesOf(Grown) \o << >> = LinesOf(AllParas) \o Cleaned(pending)
        /\ LinesOf(AllParas) \o Cleaned(pending) = ProseBefore(i, k)
    BY GrownParas DEF MergedTo
  <1>2. Len(text[FileOf(i)]) \in Nat /\ Len(fragments) \in Nat
    BY FileAt, Lengths
  <1>3. k = Len(text[FileOf(i)]) + 1
    <2>1. k <= Len(text[FileOf(i)]) + 1
      BY Zenon DEF MergedTo
    <2> QED
      BY <1>2, <2>1
  <1>4. ProseBefore(i + 1, 1) = ProseBefore(i, k)
    <2>1. i <= Len(fragments) + 1
      BY <1>2
    <2> QED
      BY <1>3, <2>1, ProseNext
  <1>5. LinesOf(Grown) \o Cleaned(<< >>) = ProseBefore(i + 1, 1)
    BY <1>1, <1>4, NoParagraphs
  <1>6. /\ i + 1 <= Len(fragments) + 1
        /\ 1 <= IF i + 1 <= Len(fragments) THEN Len(text[FileOf(i + 1)]) + 1 ELSE 1
    <2>1. i + 1 \in Nat \ {0}
      OBVIOUS
    <2>2. i + 1 <= Len(fragments) => Len(text[FileOf(i + 1)]) \in Nat
      BY <2>1, FileAt
    <2> QED
      BY <1>2, <2>2
  <1> QED
    BY <1>5, <1>6, NothingOpen, GrownPlaced DEF MergedTo

LEMMA LinePassed ==
    ASSUME ResolverTypeOK, DocumentInv, format # "pdf", NEW i \in Nat \ {0}, NEW k \in Nat \ {0},
           MergedTo(AllParas, pending, i, k), i <= Len(fragments), k <= Len(text[FileOf(i)]),
           Says(<<i, k>>).kind \in Passed \ {"comment"}
    PROVE  MergedTo(AllParas, pending, i, k + 1)
  <1>1. OpenBefore(pending, i, k)
    BY DEF MergedTo
  <1>2. OpenBefore(pending, i, k + 1)
    <2> DEFINE first == pending[1][2]
               c == Cleaned(pending)
    <2>1. pending \in Seq({i} \X Nat)
      BY <1>1 DEF OpenBefore
    <2>2. ASSUME pending # << >>
          PROVE  /\ first \in 1..k
                 /\ IF c = << >> THEN PassedOver(i, first, k + 1)
                    ELSE c[1][2] \in first..k /\ PassedOver(i, first, c[1][2])
      <3>1. /\ first \in 1..k - 1
            /\ IF c = << >> THEN PassedOver(i, first, k)
               ELSE c[1][2] \in first..k - 1 /\ PassedOver(i, first, c[1][2])
        BY <1>1, <2>2, Zenon DEF OpenBefore
      <3> HIDE DEF first, c
      <3>2. first \in 1..k
        BY <3>1
      <3>3. c # << >> => c[1][2] \in first..k
        BY <3>1
      <3>4. ASSUME c = << >> PROVE PassedOver(i, first, k + 1)
        <4>1. \A j \in first..(k + 1) - 1 : j \in first..k - 1 \/ j = k
          BY <3>2
        <4>2. text[FileOf(i)][k].kind \in Passed
          BY DEF Says
        <4>3. PassedOver(i, first, k)
          BY <3>1, <3>4
        <4> HIDE DEF Passed
        <4> QED
          BY <4>1, <4>2, <4>3 DEF PassedOver
      <3> QED
        BY <3>1, <3>2, <3>3, <3>4
    <2>3. (k + 1) - 1 = k
      OBVIOUS
    <2> QED
      BY <2>1, <2>2, <2>3 DEF OpenBefore
  <1>3. Len(text[FileOf(i)]) \in Nat
    BY FileAt
  <1>4. k + 1 <= Len(text[FileOf(i)]) + 1
    BY <1>3
  <1>5. LinesOf(AllParas) \o Cleaned(pending) = ProseBefore(i, k + 1)
    <2>1. Piece(<<i, k>>) = << >> /\ i <= Len(fragments) + 1
      BY DEF Piece, MergedTo, Passed
    <2> DEFINE p == ProseBefore(i, k)
    <2>2. p \in Seq(Pairs) /\ ProseBefore(i, k + 1) = p \o << >>
      BY <2>1, ProseNext
    <2> HIDE DEF p, Pairs
    <2>3. p \o << >> = p
      BY <2>2
    <2>4. LinesOf(AllParas) \o Cleaned(pending) = p
      BY Zenon DEF MergedTo, p
    <2> QED
      BY <2>2, <2>3, <2>4
  <1>6. Located => \A n \in 1..Len(AllParas) : Placed(AllParas[n])
    BY Zenon DEF MergedTo
  <1>7. i <= Len(fragments) + 1
    BY Zenon DEF MergedTo
  <1> QED
    BY <1>2, <1>4, <1>5, <1>6, <1>7, Zenon DEF MergedTo

LEMMA LineJoined ==
    ASSUME ResolverTypeOK, DocumentInv, format # "pdf", NEW i \in Nat \ {0}, NEW k \in Nat \ {0},
           MergedTo(AllParas, pending, i, k), i <= Len(fragments), k <= Len(text[FileOf(i)]),
           Says(<<i, k>>).kind \in {"prose", "comment"}
    PROVE  MergedTo(AllParas, Append(pending, <<i, k>>), i, k + 1)
  <1> DEFINE S == {i} \X Nat
             e == <<i, k>>
             par == Append(pending, e)
             c == Cleaned(pending)
             d == Cleaned(par)
  <1>1. pending \in Seq(S) /\ e \in S /\ e[2] = k
    BY DEF MergedTo, OpenBefore
  <1>2. /\ par \in Seq(S) /\ Len(par) = Len(pending) + 1 /\ Len(pending) \in Nat
        /\ \A n \in 1..Len(pending) : par[n] = pending[n]
        /\ par[Len(pending) + 1] = e
    <2> HIDE DEF S, e
    <2> QED
      BY <1>1, Appended
  <1>3. c \in Seq(S) /\ d = c \o Piece(e)
    <2> HIDE DEF S, e
    <2>1. /\ Cleaned(pending) \in Seq(S)
          /\ Cleaned(Append(pending, e)) = Cleaned(pending) \o IF Says(e).kind = "prose" THEN <<e>> ELSE << >>
      BY <1>1, CleanedAppend
    <2> QED
      BY <2>1 DEF Piece
  <1>4. Says(e).kind # "prose" => Says(e).kind = "comment"
    OBVIOUS
  <1>5. text[FileOf(i)][k] = Says(e)
    BY DEF Says
  <1> HIDE DEF c, d
  <1>6. d = IF Says(e).kind = "prose" THEN Append(c, e) ELSE c
    <2> HIDE DEF S, e, par
    <2>1. c \o << >> = c /\ c \o <<e>> = Append(c, e)
      BY <1>1, <1>3, AppendIsConcat
    <2> QED
      BY <1>3, <2>1 DEF Piece
  <1>7. /\ c # << >> => d # << >> /\ d[1] = c[1]
        /\ c = << >> /\ Says(e).kind = "prose" => d = <<e>>
    <2> HIDE DEF S, e, par
    <2>1. c # << >> => Append(c, e) # << >> /\ Append(c, e)[1] = c[1]
      <3>1. /\ c # << >> => 1 \in 1..Len(c)
            /\ Len(Append(c, e)) = Len(c) + 1 /\ Len(c) \in Nat
            /\ \A n \in 1..Len(c) : Append(c, e)[n] = c[n]
        <4>1. c # << >> => 1 \in 1..Len(c)
          BY <1>3
        <4> QED
          BY <1>1, <1>3, <4>1, Appended
      <3>2. Append(c, e) # << >>
        <4>1. Len(<< >>) = 0 /\ Len(Append(c, e)) # 0
          BY <3>1
        <4> QED
          BY <4>1, Zenon
      <3> QED
        BY <3>1, <3>2
    <2>2. Append(<< >>, e) = <<e>>
      OBVIOUS
    <2> QED
      BY <1>6, <2>1, <2>2
  <1>8. OpenBefore(par, i, k + 1)
    <2> DEFINE first == par[1][2]
    <2>1. (k + 1) - 1 = k
      OBVIOUS
    <2>2. CASE pending = << >>
      <3>1. par = <<e>> /\ par[1] = e
        BY <2>2, <1>2
      <3>2. first = k /\ c = << >>
        BY <3>1, <2>2, NoParagraphs DEF c
      <3>3. d = << >> => Says(e).kind = "comment"
        BY <1>4, <1>7, <3>2
      <3>4. d # << >> => d[1][2] = k
        BY <1>6, <1>7, <1>1, <3>2
      <3>5. d = << >> => PassedOver(i, k, k + 1)
        <4>1. \A j \in k..(k + 1) - 1 : j = k
          OBVIOUS
        <4> QED
          BY <3>3, <4>1, <1>5 DEF PassedOver, Passed
      <3>6. PassedOver(i, k, k)
        <4>1. ~\E j \in k..k - 1 : TRUE
          OBVIOUS
        <4> QED
          BY <4>1 DEF PassedOver
      <3>7. k \in 1..k /\ k \in k..k
        OBVIOUS
      <3> HIDE DEF par
      <3> QED
        BY <1>2, <2>1, <3>2, <3>4, <3>5, <3>6, <3>7 DEF OpenBefore, d
    <2>3. CASE pending # << >>
      <3>1. par[1] = pending[1]
        BY <1>1, <1>2, <2>3
      <3>2. /\ first \in 1..k - 1
            /\ IF c = << >> THEN PassedOver(i, first, k)
               ELSE c[1][2] \in first..k - 1 /\ PassedOver(i, first, c[1][2])
        <4>1. OpenBefore(pending, i, k)
          BY Zenon DEF MergedTo
        <4> QED
          BY <2>3, <3>1, <4>1 DEF OpenBefore, c
      <3> HIDE DEF first, par
      <3>3. first \in 1..k
        BY <3>2
      <3>4. CASE c # << >>
        <4>1. d # << >> /\ d[1][2] = c[1][2] /\ c[1][2] \in first..k
          BY <1>7, <3>2, <3>4
        <4> QED
          BY <1>2, <2>1, <3>2, <3>3, <3>4, <4>1 DEF OpenBefore, d, first
      <3>5. CASE c = << >> /\ Says(e).kind = "prose"
        <4>1. d = <<e>> /\ d # << >> /\ d[1] = e
          BY <1>7, <3>5
        <4>2. d[1][2] = k /\ k \in first..k /\ PassedOver(i, first, k)
          BY <1>1, <3>2, <3>5, <4>1
        <4> QED
          BY <1>2, <2>1, <3>3, <4>1, <4>2 DEF OpenBefore, d, first
      <3>6. CASE c = << >> /\ Says(e).kind = "comment"
        <4>1. d = << >>
          BY <1>6, <3>6
        <4>2. PassedOver(i, first, k + 1)
          <5>1. \A j \in first..(k + 1) - 1 : j \in first..k - 1 \/ j = k
            BY <3>3
          <5>2. text[FileOf(i)][k].kind \in Passed
            BY <1>5, <3>6 DEF Passed
          <5>3. PassedOver(i, first, k)
            BY <3>2, <3>6
          <5> HIDE DEF Passed
          <5> QED
            BY <5>1, <5>2, <5>3 DEF PassedOver
        <4> QED
          BY <1>2, <2>1, <3>3, <4>1, <4>2 DEF OpenBefore, d, first
      <3> QED
        BY <1>4, <3>4, <3>5, <3>6
    <2> QED
      BY <2>2, <2>3
  <1>9. LinesOf(AllParas) \o d = ProseBefore(i, k + 1)
    <2> DEFINE p == ProseBefore(i, k)
               l == LinesOf(AllParas)
    <2>1. i <= Len(fragments) + 1 /\ l \o c = p
      BY Zenon DEF MergedTo, c
    <2>2. ProseBefore(i, k + 1) = p \o Piece(e)
      BY <2>1, ProseNext
    <2>3. l \in Seq(Quotable) /\ c \in Seq(Quotable)
      BY GrownParas DEF c
    <2>4. Quotable \subseteq Pairs
      <3>1. Len(fragments) \in Nat
        BY Lengths
      <3> QED
        BY <3>1 DEF Quotable, Places0, Pairs
    <2>5. e \in Pairs
      BY DEF Pairs
    <2> HIDE DEF p, l, Pairs, Quotable, e
    <2>6. l \in Seq(Pairs) /\ c \in Seq(Pairs)
      BY <2>3, <2>4
    <2>7. l \o (c \o Piece(e)) = (l \o c) \o Piece(e)
      BY <2>5, <2>6, PieceJoined, Zenon
    <2> QED
      BY <1>3, <2>1, <2>2, <2>7, Zenon DEF l
  <1>10. Len(text[FileOf(i)]) \in Nat
    BY FileAt
  <1>11. k + 1 <= Len(text[FileOf(i)]) + 1
    BY <1>10
  <1>12. i <= Len(fragments) + 1
    BY Zenon DEF MergedTo
  <1>13. Located => \A n \in 1..Len(AllParas) : Placed(AllParas[n])
    BY Zenon DEF MergedTo
  <1> HIDE DEF par, e
  <1> QED
    BY <1>8, <1>9, <1>11, <1>12, <1>13, Zenon DEF MergedTo, d, par, e

LEMMA InitProse == PipelineInit => ProseInv
  BY DEF PipelineInit, SourceInit, ProseInv, InFragmentOrder

LEMMA BeginMergeProse ==
    ASSUME ResolverTypeOK, DocumentInv, ProseInv, BeginMerge, UNCHANGED resolverVars
    PROVE  ProseInv'
  <1>1. /\ stage = "source" /\ at = <<1, 1>> /\ pending = << >> /\ sections = << >>
        /\ current = NoSection /\ stage' \in {"merge", "error"} /\ UNCHANGED <<text, fragments>>
        /\ UNCHANGED <<at, pending, sections, current>>
    BY DEF BeginMerge, DocumentInv, ProseInv, resolverVars
  <1>2. AllParas = << >> /\ AllParas' = << >>
    <2>1. current.paragraphs = << >> /\ << >> \o << >> = << >>
      BY <1>1 DEF NoSection
    <2>2. AllParas = << >>
      BY <1>1, <2>1, NoParagraphs DEF AllParas
    <2>3. AllParas' = AllParas
      BY <1>1 DEF AllParas, ParasOf
    <2> QED
      BY <2>2, <2>3
  <1>3. Len(fragments) \in Nat /\ (1 <= Len(fragments) => Len(text[FileOf(1)]) \in Nat)
    BY Lengths, FileAt
  <1>4. ProseBefore(1, 1) = << >>
    <2>1. [j \in 1..1 - 1 |-> Whole(j)] = << >>
      OBVIOUS
    <2>2. ProseOf(1, 1 - 1) = << >>
      <3>1. 1 \in Nat /\ 0 \in Nat /\ 1 - 1 = 0
        OBVIOUS
      <3> QED
        BY <3>1, ProseOfType
    <2>3. << >> \o << >> = << >>
      OBVIOUS
    <2> QED
      BY <2>1, <2>2, <2>3, ConcatEmpty DEF ProseBefore
  <1>5. MergedTo(<< >>, << >>, 1, 1)
    <2>1. LinesOf(<< >>) \o Cleaned(<< >>) = << >>
      BY NoParagraphs
    <2>2. /\ 1 <= Len(fragments) + 1
          /\ 1 <= IF 1 <= Len(fragments) THEN Len(text[FileOf(1)]) + 1 ELSE 1
      BY <1>3
    <2>3. \A n \in 1..Len(<< >>) : Placed(<< >>[n])
      OBVIOUS
    <2> QED
      BY <1>4, <2>1, <2>2, <2>3, NothingOpen DEF MergedTo
  <1>6. MergedTo(AllParas, pending, at[1], at[2])'
    BY <1>1, <1>2, <1>5, Moved
  <1> QED
    BY <1>1, <1>6 DEF ProseInv, InFragmentOrder

(* A paragraph ends: it joins the open section, or that is closed with it. *)
LEMMA FlushGrows ==
    ASSUME DocumentInv, format # "pdf", UNCHANGED <<text, fragments>>
    PROVE  /\ current' = Flushed /\ UNCHANGED sections => AllParas' = Grown
           /\ sections' = Closed(Flushed) /\ current'.paragraphs = << >> => AllParas' = Grown
  <1>1. /\ ParasOf(sections) \o Flushed.paragraphs = Grown
        /\ ParasOf(Closed(Flushed)) \o << >> = Grown
    BY GrownParas
  <1>2. AllParas' = ParasOf(sections') \o current'.paragraphs
    BY DEF AllParas, ParasOf
  <1> QED
    BY <1>1, <1>2

LEMMA ReadLineProse ==
    ASSUME ResolverTypeOK, DocumentInv, ProseInv, ReadLine, UNCHANGED resolverVars
    PROVE  ProseInv'
  <1> DEFINE i == at[1]
             k == at[2]
  <1>1. /\ stage = "merge" /\ format = "latex" /\ UNCHANGED <<text, fragments, format>>
        /\ i <= Len(fragments) /\ k <= Len(text[FileOf(i)])
    BY DEF ReadLine, DocumentInv, resolverVars
  <1>2. i \in Nat \ {0} /\ k \in Nat \ {0} /\ at = <<i, k>>
    BY DEF DocumentInv
  <1>3. MergedTo(AllParas, pending, i, k)
    BY <1>1 DEF ProseInv
  <1>4. ASSUME MergedTo(AllParas, pending, at[1], at[2])', stage' = stage PROVE ProseInv'
    BY <1>1, <1>4 DEF ProseInv, InFragmentOrder
  <1> HIDE DEF i, k
  <1>5. CASE BlankLine /\ at' = <<i, k + 1>> /\ UNCHANGED stage
    <2>1. Says(<<i, k>>).kind # "prose"
      BY <1>2, <1>5 DEF BlankLine
    <2>2. MergedTo(Grown, << >>, i, k + 1)
      BY <1>1, <1>2, <1>3, <2>1, LineFlushed
    <2>3. AllParas' = Grown /\ pending' = << >>
      BY <1>1, <1>5, FlushGrows DEF BlankLine, Flush
    <2> HIDE DEF Grown, AllParas
    <2> QED
      BY <1>1, <1>4, <1>5, <2>2, <2>3, Moved
  <1>6. CASE SectionLine /\ at' = <<i, k + 1>> /\ UNCHANGED stage
    <2>1. Says(<<i, k>>).kind # "prose"
      BY <1>2, <1>6 DEF SectionLine
    <2>2. MergedTo(Grown, << >>, i, k + 1)
      BY <1>1, <1>2, <1>3, <2>1, LineFlushed
    <2>3. AllParas' = Grown /\ pending' = << >>
      <3>1. sections' = Closed(Flushed) /\ current'.paragraphs = << >> /\ pending' = << >>
        BY <1>6 DEF SectionLine, Flush
      <3> QED
        BY <1>1, <3>1, FlushGrows
    <2> HIDE DEF Grown, AllParas
    <2> QED
      BY <1>1, <1>4, <1>6, <2>2, <2>3, Moved
  <1>7. CASE StructuralLine /\ at' = <<i, k + 1>> /\ UNCHANGED stage
    <2>1. Says(<<i, k>>).kind \in Passed \ {"comment"}
      BY <1>2, <1>7 DEF StructuralLine, Passed
    <2>2. MergedTo(AllParas, pending, i, k + 1)
      BY <1>1, <1>2, <1>3, <2>1, LinePassed
    <2>3. AllParas' = AllParas /\ pending' = pending
      BY <1>7 DEF StructuralLine, AllParas, ParasOf
    <2> HIDE DEF AllParas
    <2> QED
      BY <1>1, <1>4, <1>7, <2>2, <2>3, Moved
  <1>8. CASE ProseLine /\ at' = <<i, k + 1>> /\ UNCHANGED stage
    <2>1. Says(<<i, k>>).kind \in {"prose", "comment"}
      BY <1>2, <1>8 DEF ProseLine
    <2>2. MergedTo(AllParas, Append(pending, <<i, k>>), i, k + 1)
      BY <1>1, <1>2, <1>3, <2>1, LineJoined
    <2>3. AllParas' = AllParas /\ pending' = Append(pending, <<i, k>>)
      BY <1>2, <1>8 DEF ProseLine, AllParas, ParasOf
    <2> HIDE DEF AllParas
    <2> QED
      BY <1>1, <1>4, <1>8, <2>2, <2>3, Moved
  <1>9. CASE stage' = "panic"
    BY <1>9 DEF ProseInv, InFragmentOrder
  <1> QED
    BY <1>5, <1>6, <1>7, <1>8, <1>9 DEF ReadLine, Panic, i, k

LEMMA EndFragmentProse ==
    ASSUME ResolverTypeOK, DocumentInv, ProseInv, EndFragment, UNCHANGED resolverVars
    PROVE  ProseInv'
  <1> DEFINE i == at[1]
             k == at[2]
  <1>1. /\ stage = "merge" /\ format = "latex" /\ UNCHANGED <<text, fragments, format>>
        /\ i <= Len(fragments) /\ k > Len(text[FileOf(i)])
    BY DEF EndFragment, DocumentInv, resolverVars
  <1>2. i \in Nat \ {0} /\ k \in Nat \ {0}
    BY DEF DocumentInv
  <1>3. MergedTo(AllParas, pending, i, k)
    BY <1>1 DEF ProseInv
  <1> HIDE DEF i, k
  <1>4. CASE at' = <<i + 1, 1>> /\ current' = Flushed /\ Flush /\ UNCHANGED <<stage, sections>>
    <2>1. MergedTo(Grown, << >>, i + 1, 1)
      BY <1>1, <1>2, <1>3, FragmentFlushed
    <2>2. AllParas' = Grown /\ pending' = << >>
      BY <1>1, <1>4, FlushGrows DEF Flush
    <2> HIDE DEF Grown, AllParas
    <2>3. MergedTo(AllParas, pending, at[1], at[2])'
      BY <1>1, <1>4, <2>1, <2>2, Moved
    <2> QED
      BY <1>1, <1>4, <2>3 DEF ProseInv, InFragmentOrder
  <1>5. CASE stage' = "panic"
    BY <1>5 DEF ProseInv, InFragmentOrder
  <1> QED
    BY <1>4, <1>5 DEF EndFragment, Panic, i, k

LEMMA FinalizeProse ==
    ASSUME ResolverTypeOK, DocumentInv, ProseInv, Finalize, UNCHANGED resolverVars
    PROVE  ProseInv'
  <1> DEFINE i == at[1]
             k == at[2]
             n == Len(fragments)
  <1>1. /\ stage = "merge" /\ stage' = "done" /\ format = "latex"
        /\ UNCHANGED <<text, fragments, format>>
        /\ i > n /\ sections' = Closed(current)
    BY DEF Finalize, DocumentInv, resolverVars
  <1>2. i \in Nat \ {0} /\ k \in Nat \ {0} /\ n \in Nat
    BY Lengths DEF DocumentInv
  <1>3. MergedTo(AllParas, pending, i, k)
    BY <1>1 DEF ProseInv
  <1> HIDE DEF i, k
  <1>4. i = n + 1 /\ k = 1
    <2>1. i <= n + 1 /\ k <= IF i <= n THEN Len(text[FileOf(i)]) + 1 ELSE 1
      BY <1>3, Zenon DEF MergedTo
    <2> HIDE DEF n
    <2> QED
      BY <1>1, <1>2, <2>1
  <1>5. pending = << >>
    <2>1. OpenBefore(pending, i, k)
      BY <1>3 DEF MergedTo
    <2>2. pending # << >> => pending[1][2] \in 1..k - 1
      BY <2>1, Zenon DEF OpenBefore
    <2> QED
      BY <1>4, <2>2
  <1>6. AllParas = ParasOf(Closed(current)) /\ LinesOf(AllParas) \in Seq(Quotable)
    BY <1>1, GrownParas
  <1>7. Paragraphs' = AllParas
    <2>1. Paragraphs' = ParasOf(sections')
      BY DEF Paragraphs, ParasOf
    <2> QED
      BY <1>1, <1>6, <2>1
  <1>8. LinesOf(AllParas) = ProseBefore(n + 1, 1)
    <2>1. LinesOf(AllParas) \o << >> = ProseBefore(n + 1, 1)
      BY <1>3, <1>4, <1>5, NoParagraphs DEF MergedTo
    <2> DEFINE l == LinesOf(AllParas)
    <2>2. l \in Seq(Quotable)
      BY <1>6
    <2> HIDE DEF l, Quotable
    <2>3. l \o << >> = l
      BY <2>2
    <2> QED
      BY <2>1, <2>3 DEF l
  <1>9. ProseBefore(n + 1, 1) = Prose
    <2> DEFINE all == [j \in 1..n |-> Whole(j)]
    <2>1. ProseOf(n + 1, 0) = << >>
      <3>1. n + 1 \in Nat
        BY <1>2
      <3> QED
        BY <3>1, ProseOfType
    <2>2. (n + 1) - 1 = n /\ 1 - 1 = 0
      BY <1>2
    <2>3. ProseBefore(n + 1, 1) = Concat(all) \o << >>
      BY <2>1, <2>2 DEF ProseBefore
    <2>4. \A j \in 1..n : Whole(j) = Concat(Pieces(j))
      <3> SUFFICES ASSUME NEW j \in 1..n PROVE Whole(j) = Concat(Pieces(j))
        OBVIOUS
      <3> DEFINE len == Len(text[FileOf(j)])
      <3>1. len \in Nat
        BY <1>2, FileAt
      <3> HIDE DEF len
      <3>2. LinesUpto(j, len) \in [1..len -> {j} \X Nat]
        BY <3>1 DEF LinesUpto
      <3>3. Len(LinesUpto(j, len)) = len /\ \A m \in 1..len : LinesUpto(j, len)[m] = <<j, m>>
        <4>1. \A m \in 1..len : LinesUpto(j, len)[m] = <<j, m>>
          BY DEF LinesUpto
        <4>2. Len(LinesUpto(j, len)) = len
          BY <3>1, <3>2, Sequenced
        <4> QED
          BY <4>1, <4>2
      <3>4. [m \in 1..Len(LinesUpto(j, len)) |-> IF Says(LinesUpto(j, len)[m]).kind = "prose"
                                                THEN <<LinesUpto(j, len)[m]>> ELSE << >>]
              = [m \in 1..len |-> IF Says(<<j, m>>).kind = "prose" THEN << <<j, m>> >> ELSE << >>]
        BY <3>3
      <3> QED
        BY <3>4, Zenon DEF Whole, ProseOf, Cleaned, Pieces, len
    <2>5. Prose = Concat(all)
      BY <2>4, Zenon DEF Prose
    <2>6. Concat(all) \o << >> = Concat(all)
      <3>1. all \in [1..n -> Seq(Pairs)]
        <4> SUFFICES ASSUME NEW j \in 1..n PROVE Whole(j) \in Seq(Pairs)
          OBVIOUS
        <4>1. j \in Nat /\ Len(text[FileOf(j)]) \in Nat
          BY <1>2, FileAt
        <4> QED
          BY <4>1, ProseOfType DEF Whole
      <3> DEFINE Q == Seq(Pairs)
      <3>2. all \in [1..n -> Q]
        BY <3>1
      <3> HIDE DEF Q, all, n
      <3>3. all \in Seq(Q)
        BY <1>2, <3>2, Sequenced
      <3>4. Concat(all) \in Seq(Pairs)
        BY <3>3, ConcatType DEF Q
      <3> HIDE DEF Pairs
      <3> DEFINE s == Concat(all)
      <3>5. s \in Seq(Pairs)
        BY <3>4
      <3> HIDE DEF s
      <3>6. s \o << >> = s
        BY <3>5
      <3> QED
        BY <3>6 DEF s
    <2> QED
      BY <2>3, <2>5, <2>6
  <1>10. LinesOf(AllParas) = Prose /\ (Located => \A m \in 1..Len(AllParas) : Placed(AllParas[m]))
    BY <1>3, <1>8, <1>9, Zenon DEF MergedTo
  <1>11. \A x : LinesOf(x)' = LinesOf(x)
    BY Zenon DEF LinesOf
  <1>12. InFragmentOrder'
    <2>1. Prose' = Prose
      BY <1>1 DEF Prose, Pieces, Says, FileOf
    <2>2. LinesOf(Paragraphs)' = LinesOf(AllParas)
      BY <1>7 DEF LinesOf
    <2>3. Located' <=> Located
      BY <1>1 DEF Located
    <2>4. \A p : Placed(p)' <=> Placed(p)
      BY <1>1, PlacedSame
    <2> DEFINE ps == Paragraphs'
    <2>5. ps = AllParas
      BY <1>7
    <2> HIDE DEF AllParas
    <2> QED
      BY <1>1, <1>10, <2>1, <2>2, <2>3, <2>4, <2>5, Zenon DEF InFragmentOrder
  <1> QED
    BY <1>1, <1>12 DEF ProseInv

LEMMA ProseStep ==
    ResolverInv /\ DocumentInv /\ ProseInv /\ [PipelineNext]_pipelineVars => ProseInv'
  <1> SUFFICES ASSUME ResolverInv, DocumentInv, ProseInv, [PipelineNext]_pipelineVars PROVE ProseInv'
    OBVIOUS
  <1>0. ResolverTypeOK
    BY DEF ResolverInv
  <1>1. CASE Resolve
    <2>1. stage = "source" /\ UNCHANGED <<stage, at>>
      BY <1>1 DEF Resolve, docVars
    <2> QED
      BY <2>1 DEF ProseInv, InFragmentOrder
  <1>2. CASE BeginMerge /\ UNCHANGED resolverVars
    BY <1>0, <1>2, BeginMergeProse
  <1>3. CASE ReadLine /\ UNCHANGED resolverVars
    BY <1>0, <1>3, ReadLineProse
  <1>4. CASE EndFragment /\ UNCHANGED resolverVars
    BY <1>0, <1>4, EndFragmentProse
  <1>5. CASE Finalize /\ UNCHANGED resolverVars
    BY <1>0, <1>5, FinalizeProse
  <1>6. CASE Unsupported
    BY <1>6 DEF Unsupported, ProseInv, InFragmentOrder
  <1>7. CASE OpenPdf \/ ReadPage \/ ClosePdf
    <2>1. /\ format = "pdf" /\ format' = format
          /\ stage' \in {"pages", "error", "done"}
      BY <1>7 DEF OpenPdf, ReadPage, ClosePdf, DocumentInv
    <2> QED
      BY <2>1 DEF ProseInv, InFragmentOrder
  <1>8. CASE UNCHANGED sourceVars
    <2>1. UNCHANGED <<text, fragments, format, stage, at, pending, current, sections>>
      BY <1>8 DEF sourceVars
    <2>2. at' = <<at[1], at[2]>>
      BY <2>1 DEF DocumentInv
    <2>3. AllParas' = AllParas
      BY <2>1 DEF AllParas, ParasOf
    <2>4. ASSUME stage = "merge" PROVE MergedTo(AllParas, pending, at[1], at[2])'
      <3>1. MergedTo(AllParas, pending, at[1], at[2])
        BY <2>4 DEF ProseInv
      <3> HIDE DEF AllParas
      <3> QED
        BY <2>1, <2>2, <2>3, <3>1, Moved
    <2>5. InFragmentOrder' <=> InFragmentOrder
      <3>1. \A p : Placed(p)' <=> Placed(p)
        BY <2>1, PlacedSame
      <3>2. /\ Prose' = Prose /\ Paragraphs' = Paragraphs /\ (Located' <=> Located)
            /\ LinesOf(Paragraphs)' = LinesOf(Paragraphs)
        BY <2>1, Zenon DEF Prose, Pieces, Paragraphs, Located, LinesOf, Says, FileOf
      <3> DEFINE ps == Paragraphs
                 same == Paragraphs'
      <3>3. same = ps
        BY <3>2
      <3> QED
        BY <2>1, <3>1, <3>2, <3>3, Zenon DEF InFragmentOrder
    <2> QED
      BY <2>1, <2>4, <2>5 DEF ProseInv
  <1>9. SourceNext \/ UNCHANGED sourceVars
    BY DEF PipelineNext, pipelineVars, sourceVars, Parse
  <1> QED
    BY <1>1, <1>2, <1>3, <1>4, <1>5, <1>6, <1>7, <1>8, <1>9 DEF SourceNext

(* Lines of one fragment stand in the order of its file.                   *)
Ascending == {q \in Pairs \X Pairs : q[1][1] = q[2][1] => q[1][2] < q[2][2]}

(* The prose of one fragment: what there is, in order.                     *)
LEMMA PiecesAscend ==
    ASSUME ResolverTypeOK, NEW i \in 1..Len(fragments)
    PROVE  /\ Concat(Pieces(i)) \in Seq(Pairs)
           /\ Range(Concat(Pieces(i))) = ProseIn(i)
           /\ InOrder(Concat(Pieces(i)), Ascending)
  <1> DEFINE len == Len(text[FileOf(i)])
             seqs == Pieces(i)
             Q == Seq(Pairs)
  <1>1. len \in Nat /\ i \in Nat /\ Len(fragments) \in Nat
    <2>1. Len(fragments) \in Nat
      BY Lengths DEF ResolverTypeOK
    <2>2. i \in Nat \ {0} /\ i <= Len(fragments)
      BY <2>1
    <2> QED
      BY <2>1, <2>2, FileAt
  <1>2. \A k \in 1..len : seqs[k] = IF Says(<<i, k>>).kind = "prose" THEN << <<i, k>> >> ELSE << >>
    BY DEF Pieces
  <1>3. \A k \in 1..len : <<i, k>> \in Pairs
    BY <1>1 DEF Pairs
  <1>4. seqs \in [1..len -> Q]
    <2> SUFFICES ASSUME NEW k \in 1..len
                 PROVE  (IF Says(<<i, k>>).kind = "prose" THEN << <<i, k>> >> ELSE << >>) \in Seq(Pairs)
      BY DEF Pieces
    <2> QED
      BY <1>3
  <1>5. seqs \in Seq(Q) /\ Len(seqs) = len
    <2> HIDE DEF seqs, Q, len
    <2> QED
      BY <1>1, <1>4, Sequenced
  <1> HIDE DEF seqs, len
  <1>6. \A k \in 1..len : Range(seqs[k]) = IF Says(<<i, k>>).kind = "prose" THEN {<<i, k>>} ELSE {}
    <2> SUFFICES ASSUME NEW k \in 1..len
                 PROVE  Range(seqs[k]) = IF Says(<<i, k>>).kind = "prose" THEN {<<i, k>>} ELSE {}
      OBVIOUS
    <2>1. Range(<< <<i, k>> >>) = {<<i, k>>} /\ Range(<< >>) = {}
      BY DEF Range
    <2> QED
      BY <1>2, <2>1
  <1>7. Concat(seqs) \in Seq(Pairs) /\ Range(Concat(seqs)) = UNION {Range(seqs[k]) : k \in 1..len}
    BY <1>5, ConcatType, ConcatRange DEF Q
  <1>8. UNION {Range(seqs[k]) : k \in 1..len} = ProseIn(i)
    BY <1>6 DEF ProseIn, len
  <1>9. \A k \in 1..len : InOrder(seqs[k], Ascending)
    <2> SUFFICES ASSUME NEW k \in 1..len PROVE InOrder(seqs[k], Ascending)
      OBVIOUS
    <2> DEFINE e == <<i, k>>
    <2>1. seqs[k] = <<e>> \/ seqs[k] = << >>
      BY <1>2
    <2> HIDE DEF e
    <2>2. InOrder(<<e>>, Ascending) /\ InOrder(<< >>, Ascending)
      BY DEF InOrder
    <2> QED
      BY <2>1, <2>2
  <1>10. ASSUME NEW k \in 1..len, NEW l \in 1..len, k < l
         PROVE  Crosses(seqs[k], seqs[l], Ascending)
    <2> SUFFICES ASSUME NEW x \in Range(seqs[k]), NEW y \in Range(seqs[l])
                 PROVE  <<x, y>> \in Ascending
      BY DEF Crosses
    <2>1. x = <<i, k>> /\ y = <<i, l>>
      BY <1>6
    <2> QED
      BY <1>3, <1>10, <2>1 DEF Ascending
  <1>11. InOrder(Concat(seqs), Ascending)
    BY <1>5, <1>9, <1>10, ConcatInOrder DEF Q
  <1> QED
    BY <1>7, <1>8, <1>11 DEF seqs

(* The prose of all of them.                                               *)
LEMMA ProseAscends ==
    ASSUME ResolverTypeOK
    PROVE  /\ Prose \in Seq(Pairs)
           /\ Range(Prose) = UNION {ProseIn(i) : i \in 1..Len(fragments)}
           /\ InOrder(Prose, Ascending)
  <1> DEFINE n == Len(fragments)
             seqs == [i \in 1..n |-> Concat(Pieces(i))]
             Q == Seq(Pairs)
  <1>1. n \in Nat
    BY Lengths DEF ResolverTypeOK
  <1>2. \A i \in 1..n : /\ seqs[i] \in Q /\ Range(seqs[i]) = ProseIn(i)
                       /\ InOrder(seqs[i], Ascending)
    BY PiecesAscend
  <1>3. seqs \in [1..n -> Q]
    BY PiecesAscend
  <1>4. Prose = Concat(seqs)
    BY DEF Prose
  <1> HIDE DEF seqs, n
  <1>5. seqs \in Seq(Q) /\ Len(seqs) = n
    <2> HIDE DEF Q
    <2> QED
      BY <1>1, <1>3, Sequenced
  <1>6. Concat(seqs) \in Seq(Pairs) /\ Range(Concat(seqs)) = UNION {Range(seqs[i]) : i \in 1..n}
    BY <1>5, ConcatType, ConcatRange DEF Q
  <1>7. UNION {Range(seqs[i]) : i \in 1..n} = UNION {ProseIn(i) : i \in 1..n}
    BY <1>2
  <1>8. ASSUME NEW i \in 1..n, NEW j \in 1..n, i < j
        PROVE  Crosses(seqs[i], seqs[j], Ascending)
    <2> SUFFICES ASSUME NEW x \in Range(seqs[i]), NEW y \in Range(seqs[j])
                 PROVE  <<x, y>> \in Ascending
      BY DEF Crosses
    <2>1. x \in Pairs /\ y \in Pairs
      BY <1>2, SeqRange
    <2>2. x \in ProseIn(i) /\ y \in ProseIn(j)
      BY <1>2
    <2>3. \A h : \A z \in ProseIn(h) : z[1] = h
      <3> SUFFICES ASSUME NEW h, NEW z \in ProseIn(h) PROVE z[1] = h
        OBVIOUS
      <3>1. \E k : z = <<h, k>>
        BY Zenon DEF ProseIn
      <3> QED
        BY ONLY <3>1
    <2>4. x[1] = i /\ y[1] = j
      BY <2>2, <2>3
    <2> QED
      BY <1>1, <1>8, <2>1, <2>4 DEF Ascending
  <1>9. InOrder(Concat(seqs), Ascending)
    BY <1>2, <1>5, <1>8, ConcatInOrder DEF Q
  <1> QED
    BY <1>4, <1>6, <1>7, <1>9 DEF n

LEMMA FragmentOrderKept == ResolverTypeOK /\ InFragmentOrder => ProseKept
  <1> SUFFICES ASSUME ResolverTypeOK, InFragmentOrder, stage = "done", format = "latex"
               PROVE  ProseKept
    BY DEF ProseKept
  <1> DEFINE lines == LinesOf(Paragraphs)
  <1>1. lines = Prose /\ (Located => \A n \in 1..Len(Paragraphs) : Placed(Paragraphs[n]))
    BY DEF InFragmentOrder
  <1>2. /\ Range(lines) = UNION {ProseIn(i) : i \in 1..Len(fragments)}
        /\ InOrder(lines, Ascending)
    BY <1>1, ProseAscends
  <1> HIDE DEF lines
  <1>3. \A m, n \in 1..Len(lines) :
           m < n /\ lines[m][1] = lines[n][1] => lines[m][2] < lines[n][2]
    BY <1>2 DEF InOrder, Ascending
  <1> QED
    BY <1>1, <1>2, <1>3, Zenon DEF ProseKept, lines

(* No line of prose of a project is lost or doubled, nor moved in its own  *)
(* file, however long its files are and however deep they include one      *)
(* another, and each paragraph says where it is from (build_sections).     *)
(* (That included text stands in its place is not so: SplicedInPlace.)     *)
THEOREM ProseAlwaysKept == PipelineSpec => []ProseKept
  <1>1. ResolverInv /\ ProseInv => ProseKept
    BY FragmentOrderKept DEF ProseInv, ResolverInv
  <1> QED
    BY <1>1, InitProse, ProseStep, ResolverAlways, DocumentAlways, PTL DEF PipelineSpec

-----------------------------------------------------------------------------
LEMMA JoinedDistinct ==
    ASSUME NEW S, NEW s \in Seq(S), NEW t \in Seq(S), DistinctIds(s), DistinctIds(t),
           \A x \in Range(s), y \in Range(t) : x.id # y.id
    PROVE  DistinctIds(s \o t)
  <1> DEFINE u == s \o t
             a == Len(s)
             b == Len(t)
  <1>1. /\ Len(u) = a + b /\ a \in Nat /\ b \in Nat
        /\ \A n \in 1..a : u[n] = s[n] /\ s[n] \in Range(s)
        /\ \A n \in 1..b : u[a + n] = t[n] /\ t[n] \in Range(t)
        /\ \A k \in 1..Len(u) : k \in 1..a \/ \E n \in 1..b : k = a + n
    <2>1. /\ u \in Seq(S) /\ Len(u) = a + b /\ a \in Nat /\ b \in Nat
          /\ \A n \in 1..a : u[n] = s[n]
          /\ \A n \in 1..b : u[a + n] = t[n]
          /\ \A k \in 1..Len(u) : k \in 1..a \/ \E n \in 1..b : k = a + n
      BY JoinedAt
    <2>2. (\A n \in 1..a : s[n] \in Range(s)) /\ (\A n \in 1..b : t[n] \in Range(t))
      BY SeqRange
    <2> HIDE DEF u, a, b
    <2> QED
      BY <2>1, <2>2
  <1>2. /\ \A m, n \in 1..a : s[m].id = s[n].id => m = n
        /\ \A m, n \in 1..b : t[m].id = t[n].id => m = n
    BY DEF DistinctIds
  <1> HIDE DEF u, a, b
  <1>3. ASSUME NEW m \in 1..Len(u), NEW n \in 1..Len(u), u[m].id = u[n].id
        PROVE  m = n
    <2>1. CASE m \in 1..a /\ n \in 1..a
      BY <1>1, <1>2, <1>3, <2>1
    <2>2. CASE m \in 1..a /\ \E k \in 1..b : n = a + k
      <3>1. u[m] \in Range(s) /\ u[n] \in Range(t)
        BY <1>1, <2>2
      <3> QED
        BY <1>3, <3>1
    <2>3. CASE n \in 1..a /\ \E k \in 1..b : m = a + k
      <3>1. u[n] \in Range(s) /\ u[m] \in Range(t)
        BY <1>1, <2>3
      <3> QED
        BY <1>3, <3>1
    <2>4. CASE (\E k \in 1..b : n = a + k) /\ (\E k \in 1..b : m = a + k)
      <3>1. PICK j \in 1..b : n = a + j
        BY <2>4
      <3>2. PICK k \in 1..b : m = a + k
        BY <2>4
      <3>3. u[n] = t[j] /\ u[m] = t[k]
        BY <1>1, <3>1, <3>2
      <3>4. k = j
        BY <1>2, <1>3, <3>3
      <3> QED
        BY <3>1, <3>2, <3>4
    <2> QED
      BY <1>1, <2>1, <2>2, <2>3, <2>4
  <1> QED
    BY <1>3 DEF DistinctIds, u

LEMMA CleanedRange ==
    ASSUME NEW S, NEW par \in Seq(S)
    PROVE  /\ Cleaned(par) \in Seq(S)
           /\ Range(Cleaned(par)) = {e \in Range(par) : Says(e).kind = "prose"}
  <1> DEFINE T == {e \in S : Says(e).kind = "prose"}
             out == Concat([n \in 1..Len(par) |-> IF par[n] \in T THEN <<par[n]>> ELSE << >>])
  <1>1. out \in Seq(S) /\ Range(out) = Range(par) \cap T
    <2> HIDE DEF T
    <2> QED
      BY Filtered
  <1>2. Range(par) \subseteq S /\ \A n \in 1..Len(par) : par[n] \in S
    BY SeqRange
  <1>3. Cleaned(par) = out
    BY <1>2 DEF Cleaned
  <1> HIDE DEF out
  <1> QED
    BY <1>1, <1>2, <1>3

LEMMA CitingRange ==
    ASSUME NEW S, NEW par \in Seq(S)
    PROVE  /\ Citing(par) \in Seq(S)
           /\ Range(Citing(par)) = {e \in Range(par) : Says(e).keys # << >>}
  <1> DEFINE T == {e \in S : Says(e).keys # << >>}
             out == Concat([n \in 1..Len(par) |-> IF par[n] \in T THEN <<par[n]>> ELSE << >>])
  <1>1. out \in Seq(S) /\ Range(out) = Range(par) \cap T
    <2> HIDE DEF T
    <2> QED
      BY Filtered
  <1>2. Range(par) \subseteq S /\ \A n \in 1..Len(par) : par[n] \in S
    BY SeqRange
  <1>3. Citing(par) = out
    BY <1>2 DEF Citing
  <1> HIDE DEF out
  <1> QED
    BY <1>1, <1>2, <1>3

-----------------------------------------------------------------------------
(* Citations and claims of the paragraphs paras.                           *)
Linked(paras, cits, cls) ==
    /\ DistinctIds(paras) /\ DistinctIds(cits) /\ DistinctIds(cls)
    /\ \A p \in Range(paras) : Cites(p, cits) /\ Claims(p, cls)
    /\ \A c \in Range(cits) : c.id[1] = c.location /\ \E p \in Range(paras) : CitedIn(c, p)
    /\ \A c \in Range(cls) : c.id[1] = c.location /\ \E p \in Range(paras) : c.location = p.id

(* nc and nd are those of p.                                               *)
Brought(p, nc, nd) ==
    /\ DistinctIds(nc) /\ DistinctIds(nd) /\ Cites(p, nc) /\ Claims(p, nd)
    /\ \A c \in Range(nc) : c.id[1] = c.location /\ CitedIn(c, p)
    /\ \A c \in Range(nd) : c.id[1] = c.location /\ c.location = p.id

Fresh(p, paras) == \A q \in Range(paras) : q.id # p.id

LEMMA LinkedGrows ==
    ASSUME NEW P, NEW paras \in Seq(P), NEW p \in P,
           NEW cits, NEW nc, NEW cls, NEW nd,
           IsSequence(cits), IsSequence(nc), IsSequence(cls), IsSequence(nd),
           Linked(paras, cits, cls), Brought(p, nc, nd), Fresh(p, paras)
    PROVE  /\ Linked(Append(paras, p), cits \o nc, cls \o nd)
           /\ IsSequence(cits \o nc) /\ IsSequence(cls \o nd)
  <1>1. PICK C0 : cits \in Seq(C0)
    BY DEF IsSequence
  <1>2. PICK C1 : nc \in Seq(C1)
    BY DEF IsSequence
  <1>3. PICK D0 : cls \in Seq(D0)
    BY DEF IsSequence
  <1>4. PICK D1 : nd \in Seq(D1)
    BY DEF IsSequence
  <1> DEFINE C == C0 \cup C1
             D == D0 \cup D1
             more == Append(paras, p)
             allc == cits \o nc
             alld == cls \o nd
  <1>5. cits \in Seq(C) /\ nc \in Seq(C) /\ cls \in Seq(D) /\ nd \in Seq(D)
    <2>1. C0 \subseteq C /\ C1 \subseteq C /\ D0 \subseteq D /\ D1 \subseteq D
      OBVIOUS
    <2> HIDE DEF C, D
    <2> QED
      BY <1>1, <1>2, <1>3, <1>4, <2>1
  <1>6. <<p>> \in Seq(P) /\ more = paras \o <<p>> /\ Range(<<p>>) = {p}
    <2>1. Range(<<p>>) = {p}
      BY DEF Range
    <2> QED
      BY <2>1, AppendIsConcat
  <1> HIDE DEF C, D
  <1>7. Range(more) = Range(paras) \cup {p}
    <2> DEFINE one == <<p>>
    <2>1. one \in Seq(P) /\ more = paras \o one /\ Range(one) = {p}
      BY <1>6
    <2> HIDE DEF one, more
    <2>2. Range(paras \o one) = Range(paras) \cup Range(one)
      BY <2>1, JoinedRange
    <2> QED
      BY <2>1, <2>2
  <1>8. /\ allc \in Seq(C) /\ Range(allc) = Range(cits) \cup Range(nc)
        /\ alld \in Seq(D) /\ Range(alld) = Range(cls) \cup Range(nd)
    BY <1>5, JoinedRange
  <1>9. DistinctIds(more)
    <2>1. DistinctIds(<<p>>)
      BY DEF DistinctIds
    <2>2. DistinctIds(paras) /\ \A x \in Range(paras), y \in Range(<<p>>) : x.id # y.id
      BY <1>6 DEF Linked, Fresh
    <2> QED
      BY <1>6, <2>1, <2>2, JoinedDistinct
  <1>10. ASSUME NEW c \in Range(cits), NEW d \in Range(nc) PROVE c.id # d.id
    <2>1. c.id[1] = c.location /\ \E q \in Range(paras) : c.location = q.id
      BY DEF Linked, CitedIn
    <2>2. d.id[1] = p.id
      BY DEF Brought, CitedIn
    <2> QED
      BY <2>1, <2>2 DEF Fresh
  <1>11. ASSUME NEW c \in Range(cls), NEW d \in Range(nd) PROVE c.id # d.id
    <2>1. c.id[1] = c.location /\ \E q \in Range(paras) : c.location = q.id
      BY DEF Linked
    <2>2. d.id[1] = p.id
      BY DEF Brought
    <2> QED
      BY <2>1, <2>2 DEF Fresh
  <1>12. DistinctIds(allc) /\ DistinctIds(alld)
    <2>1. DistinctIds(cits) /\ DistinctIds(nc) /\ DistinctIds(cls) /\ DistinctIds(nd)
      BY DEF Linked, Brought
    <2>2. DistinctIds(allc)
      BY <1>5, <1>10, <2>1, JoinedDistinct
    <2>3. DistinctIds(alld)
      BY <1>5, <1>11, <2>1, JoinedDistinct
    <2> QED
      BY <2>2, <2>3
  <1> HIDE DEF more, allc, alld
  <1>13. ASSUME NEW q \in Range(more) PROVE Cites(q, allc) /\ Claims(q, alld)
    <2>1. CASE q \in Range(paras)
      <3>1. Cites(q, cits) /\ Claims(q, cls)
        BY <2>1 DEF Linked
      <3>2. \A c \in Range(nd) : c.location # q.id
        BY <2>1 DEF Brought, Fresh
      <3> QED
        BY <1>8, <3>1, <3>2 DEF Cites, Claims
    <2>2. CASE q = p
      <3>1. Cites(p, nc) /\ Claims(p, nd)
        BY DEF Brought
      <3>2. \A c \in Range(cls) : c.location # p.id
        BY DEF Linked, Fresh
      <3> QED
        BY <1>8, <2>2, <3>1, <3>2 DEF Cites, Claims
    <2> QED
      BY <1>7, <2>1, <2>2
  <1>14. ASSUME NEW c \in Range(allc)
         PROVE  c.id[1] = c.location /\ \E q \in Range(more) : CitedIn(c, q)
    <2>1. CASE c \in Range(cits)
      BY <1>7, <2>1 DEF Linked
    <2>2. CASE c \in Range(nc)
      BY <1>7, <2>2 DEF Brought
    <2> QED
      BY <1>8, <2>1, <2>2
  <1>15. ASSUME NEW c \in Range(alld)
         PROVE  c.id[1] = c.location /\ \E q \in Range(more) : c.location = q.id
    <2>1. CASE c \in Range(cls)
      BY <1>7, <2>1 DEF Linked
    <2>2. CASE c \in Range(nd)
      BY <1>7, <2>2 DEF Brought
    <2> QED
      BY <1>8, <2>1, <2>2
  <1>16. Linked(more, allc, alld)
    BY <1>9, <1>12, <1>13, <1>14, <1>15 DEF Linked
  <1>17. IsSequence(allc) /\ IsSequence(alld)
    BY <1>8 DEF IsSequence
  <1> QED
    BY <1>16, <1>17 DEF more, allc, alld

(* Lines of fragment i that may be in a paragraph.                         *)
Spoken(i) ==
    {e \in {i} \X Nat : e[2] \in 1..Len(text[FileOf(i)]) /\ Says(e).kind \in {"prose", "comment"}}

LEMMA CitationsBrought ==
    ASSUME ResolverTypeOK, NEW i \in Nat \ {0}, i <= Len(fragments),
           pending \in Seq(Spoken(i)), Kept
    PROVE  LET nc == CitationsIn(pending) IN
           /\ IsSequence(nc) /\ DistinctIds(nc) /\ Cites(Open, nc)
           /\ \A c \in Range(nc) : c.id[1] = c.location /\ CitedIn(c, Open)
  <1> DEFINE S == Spoken(i)
             nc == CitationsIn(pending)
             citing == Citing(pending)
             c0 == Cleaned(pending)
             id == Open.id
             new(n) == [id |-> <<id, n>>, location |-> id, refs |-> Says(citing[n]).keys]
             f == FileOf(i)
  <1>1. pending \in Seq(S)
    OBVIOUS
  <1>2. /\ c0 \in Seq(S) /\ Range(c0) = {e \in Range(pending) : Says(e).kind = "prose"}
        /\ citing \in Seq(S) /\ Range(citing) = {e \in Range(pending) : Says(e).keys # << >>}
    <2> HIDE DEF S
    <2> QED
      BY <1>1, CleanedRange, CitingRange
  <1>3. c0 # << >> /\ Open.lines = c0
    BY DEF Kept, Open
  <1>4. nc = [n \in 1..Len(citing) |-> new(n)]
    BY Zenon DEF CitationsIn
  <1> HIDE DEF c0, citing, id
  <1>5. Len(citing) \in Nat /\ \A n \in 1..Len(citing) : citing[n] \in S
    <2> HIDE DEF S
    <2> QED
      BY <1>2
  <1> HIDE DEF nc
  <1>6. /\ DOMAIN nc = 1..Len(citing) /\ \A n \in 1..Len(citing) : nc[n] = new(n)
    BY <1>4
  <1>7. nc \in Seq(Range(nc)) /\ Len(nc) = Len(citing)
    <2> HIDE DEF new
    <2>1. nc \in [1..Len(citing) -> Range(nc)]
      BY <1>4, <1>6 DEF Range
    <2> QED
      BY <1>5, <2>1, Sequenced
  <1>8. IsSequence(nc)
    BY <1>7 DEF IsSequence
  <1>9. DistinctIds(nc)
    <2>1. \A n \in 1..Len(citing) : nc[n].id[2] = n
      BY <1>6
    <2> QED
      BY <1>7, <2>1 DEF DistinctIds
  <1>10. Open.lines[1] \in S
    <2>1. c0[1] \in S
      <3> HIDE DEF S
      <3> QED
        BY <1>2, <1>3
    <2> QED
      BY <1>3, <2>1
  <1>11. ASSUME NEW c \in Range(nc) PROVE c.id[1] = c.location /\ CitedIn(c, Open)
    <2>1. PICK n \in 1..Len(citing) : c = new(n)
      BY <1>6 DEF Range
    <2>2. citing[n] \in S
      BY <1>5
    <2>3. /\ c.id[1] = c.location /\ c.location = Open.id /\ c.refs = Says(citing[n]).keys
      BY <2>1 DEF id
    <2>4. Says(citing[n]) = text[f][citing[n][2]] /\ citing[n][2] \in 1..Len(text[f])
          /\ Says(citing[n]).kind \in {"prose", "comment"}
      BY <2>2 DEF Spoken, Says
    <2>5. Open.lines[1][1] = i
      BY <1>10 DEF Spoken
    <2>6. \E line \in Range(text[f]) : line.kind \in {"prose", "comment"} /\ line.keys = c.refs
      <3>1. DOMAIN text[f] = 1..Len(text[f])
        <4>1. text[f] \in Seq(Elements)
          BY FileAt
        <4> HIDE DEF f, Elements
        <4> QED
          BY <4>1
      <3> QED
        BY <2>3, <2>4, <3>1 DEF Range
    <2> QED
      BY <2>3, <2>5, <2>6 DEF CitedIn
  <1>12. Cites(Open, nc)
    <2> SUFFICES ASSUME NEW e \in Range(Open.lines), Says(e).keys # << >>
                 PROVE  \E c \in Range(nc) : c.location = Open.id /\ c.refs = Says(e).keys
      BY DEF Cites
    <2>1. e \in Range(citing)
      BY <1>2, <1>3
    <2>2. PICK n \in 1..Len(citing) : citing[n] = e
      <3> HIDE DEF S
      <3> QED
        BY <1>2, <2>1, SeqRange
    <2>3. new(n) \in Range(nc)
      BY <1>6 DEF Range
    <2>4. new(n).location = Open.id /\ new(n).refs = Says(e).keys
      BY <2>2 DEF id
    <2> HIDE DEF new
    <2> QED
      BY <2>3, <2>4
  <1> QED
    BY <1>8, <1>9, <1>11, <1>12 DEF nc

LEMMA ClaimsBrought ==
    LET nd == ClaimsIn(Cleaned(pending)) IN
    /\ IsSequence(nd) /\ DistinctIds(nd) /\ Claims(Open, nd)
    /\ \A c \in Range(nd) : c.id[1] = c.location /\ c.location = Open.id
  <1> DEFINE nd == ClaimsIn(Cleaned(pending))
  <1>1. Open.lines = Cleaned(pending)
    BY DEF Open
  <1>2. CASE Claiming(Cleaned(pending)) = {}
    <2>1. nd = << >>
      BY <1>2, Zenon DEF ClaimsIn
    <2>2. << >> \in Seq({}) /\ Len(<< >>) = 0 /\ Range(<< >>) = {}
      BY DEF Range
    <2> QED
      BY <1>1, <1>2, <2>1, <2>2 DEF IsSequence, DistinctIds, Claims
  <1>3. CASE Claiming(Cleaned(pending)) # {}
    <2>1. \E x : nd = <<[id |-> <<Open.id, x>>, location |-> Open.id]>>
      BY <1>3, Zenon DEF ClaimsIn
    <2>2. PICK x : nd = <<[id |-> <<Open.id, x>>, location |-> Open.id]>>
      BY <2>1
    <2> DEFINE c == [id |-> <<Open.id, x>>, location |-> Open.id]
    <2>3. c.id[1] = Open.id /\ c.location = Open.id /\ nd = <<c>>
      BY <2>2
    <2> HIDE DEF c, nd
    <2>4. <<c>> \in Seq({c}) /\ Len(<<c>>) = 1 /\ Range(<<c>>) = {c}
      BY DEF Range
    <2>5. IsSequence(nd) /\ Range(nd) = {c}
      BY <2>3, <2>4 DEF IsSequence
    <2>6. DistinctIds(nd)
      BY <2>3, <2>4 DEF DistinctIds
    <2>7. Claims(Open, nd)
      BY <1>1, <1>3, <2>3, <2>5 DEF Claims
    <2> QED
      BY <2>3, <2>5, <2>6, <2>7 DEF nd
  <1> QED
    BY <1>2, <1>3

-----------------------------------------------------------------------------
(* Ids of the sections so far, that of the text before the first included. *)
Taken(n) == {<<"front", 0>>} \cup {<<"section", c>> : c \in 1..n}

(* Sections secs are closed, top is open, paras are the paragraphs of all. *)
IdsOK(secs, top, paras, n) ==
    /\ n \in Nat
    /\ DistinctIds(secs)
    /\ \A m \in 1..Len(secs) : secs[m].id \in Taken(n) /\ secs[m].id # top.id
    /\ top.id \in Taken(n)
    /\ Len(top.paragraphs) \in Nat
    /\ \A p \in Range(paras) :
          /\ p.id[1] \in Taken(n)
          /\ p.id[1] = top.id => p.id[2] \in 1..Len(top.paragraphs)

LEMMA TakenOnce ==
    ASSUME NEW n \in Nat
    PROVE  /\ Taken(n) \subseteq Taken(n + 1)
           /\ <<"section", n + 1>> \in Taken(n + 1) /\ <<"section", n + 1>> \notin Taken(n)
           /\ <<"none", 0>> \notin Taken(n)
  <1>1. \A c \in 1..n : c \in 1..n + 1 /\ c # n + 1
    OBVIOUS
  <1>2. n + 1 \in 1..n + 1
    OBVIOUS
  <1>3. Taken(n) \subseteq Taken(n + 1)
    BY <1>1 DEF Taken
  <1>4. <<"section", n + 1>> \in Taken(n + 1)
    BY <1>2 DEF Taken
  <1>5. <<"section", n + 1>> \notin Taken(n)
    <2>1. \A c \in 1..n : <<"section", n + 1>> # <<"section", c>>
      BY <1>1
    <2>2. <<"section", n + 1>> # <<"front", 0>>
      OBVIOUS
    <2> QED
      BY <2>1, <2>2 DEF Taken
  <1>6. <<"none", 0>> \notin Taken(n)
    BY DEF Taken
  <1> QED
    BY <1>3, <1>4, <1>5, <1>6

(* What a flush makes of the open section.                                 *)
LEMMA FlushedTop ==
    ASSUME DocumentInv
    PROVE  /\ Len(Opened.paragraphs) \in Nat
           /\ Kept => /\ Flushed.id = Opened.id /\ Flushed # NoSection
                      /\ Len(Flushed.paragraphs) = Len(Opened.paragraphs) + 1
           /\ ~Kept => Flushed = current
           /\ Open.id = <<Opened.id, Len(Opened.paragraphs) + 1>>
  <1>1. SectionOK(Opened)
    BY EmptySectionOK DEF Opened, DocumentInv
  <1>2. PICK id, ps : Opened = [id |-> id, paragraphs |-> ps] /\ Quoting(ps)
    BY <1>1 DEF SectionOK
  <1>3. PICK S : ps \in Seq(S)
    BY <1>2 DEF Quoting
  <1>4. Opened.id = id /\ Opened.paragraphs = ps /\ Len(ps) \in Nat
    <2>1. Len(ps) \in Nat
      BY <1>3
    <2> QED
      BY <1>2, <2>1
  <1>5. Open.id = <<Opened.id, Len(Opened.paragraphs) + 1>>
    BY DEF Open, ParagraphId
  <1>6. ASSUME Kept
        PROVE  /\ Flushed.id = Opened.id /\ Flushed # NoSection
               /\ Len(Flushed.paragraphs) = Len(Opened.paragraphs) + 1
    <2> DEFINE more == Append(ps, Open)
    <2>1. ps \in Seq(S \cup {Open}) /\ Open \in S \cup {Open}
      BY <1>3
    <2>2. Len(more) = Len(ps) + 1
      BY <2>1, Appended
    <2> HIDE DEF more, Opened
    <2>3. [Opened EXCEPT !.paragraphs = more] = [id |-> id, paragraphs |-> more]
      BY <1>2
    <2>4. Flushed = [id |-> id, paragraphs |-> more]
      BY <1>4, <1>6, <2>3 DEF Flushed, more
    <2>5. Flushed.id = id /\ Flushed.paragraphs = more
      BY <2>4
    <2>6. NoSection.paragraphs = << >> /\ Len(<< >>) = 0
      BY DEF NoSection
    <2>7. Flushed # NoSection
      BY <1>4, <2>2, <2>5, <2>6
    <2> QED
      BY <1>4, <2>2, <2>5, <2>7
  <1>7. ~Kept => Flushed = current
    BY DEF Flushed
  <1> QED
    BY <1>4, <1>5, <1>6, <1>7

(* Ids stay distinct when a paragraph joins the open section.              *)
LEMMA IdsGrow ==
    ASSUME DocumentInv, format # "pdf", IdsOK(sections, Opened, AllParas, counter)
    PROVE  /\ Kept => /\ IdsOK(sections, Flushed, Grown, counter)
                      /\ \A q \in Range(AllParas) : q.id # Open.id
           /\ ~Kept => Grown = AllParas
  <1> SUFFICES ASSUME Kept
               PROVE  /\ IdsOK(sections, Flushed, Grown, counter)
                      /\ \A q \in Range(AllParas) : q.id # Open.id
    BY DEF Grown
  <1>1. /\ Len(Opened.paragraphs) \in Nat /\ Flushed.id = Opened.id
        /\ Len(Flushed.paragraphs) = Len(Opened.paragraphs) + 1
        /\ Open.id = <<Opened.id, Len(Opened.paragraphs) + 1>>
    BY FlushedTop
  <1>2. PICK Q : AllParas \in Seq(Q) /\ Open \in Q
    BY ParasTyped
  <1> HIDE DEF AllParas, Open, Kept, Flushed, Opened
  <1>3. Range(Grown) = Range(AllParas) \cup {Open}
    <2> DEFINE one == <<Open>>
    <2>1. one \in Seq(Q) /\ Grown = AllParas \o one /\ Range(one) = {Open}
      <3>1. Range(<<Open>>) = {Open}
        BY DEF Range
      <3>2. Append(AllParas, Open) = AllParas \o <<Open>>
        BY <1>2, AppendIsConcat
      <3> QED
        BY <1>2, <3>1, <3>2 DEF Grown
    <2> HIDE DEF one, Grown
    <2>2. Range(AllParas \o one) = Range(AllParas) \cup Range(one)
      BY <1>2, <2>1, JoinedRange
    <2> QED
      BY <2>1, <2>2
  <1>4. \A q \in Range(AllParas) : q.id # Open.id
    <2> SUFFICES ASSUME NEW q \in Range(AllParas), q.id = Open.id PROVE FALSE
      OBVIOUS
    <2>1. q.id[1] = Opened.id /\ q.id[2] = Len(Opened.paragraphs) + 1
      BY <1>1
    <2>2. q.id[2] \in 1..Len(Opened.paragraphs)
      BY <2>1 DEF IdsOK
    <2> QED
      BY <1>1, <2>1, <2>2
  <1>5. ASSUME NEW p \in Range(Grown)
        PROVE  /\ p.id[1] \in Taken(counter)
               /\ p.id[1] = Flushed.id => p.id[2] \in 1..Len(Flushed.paragraphs)
    <2>1. CASE p \in Range(AllParas)
      <3>1. /\ p.id[1] \in Taken(counter)
            /\ p.id[1] = Opened.id => p.id[2] \in 1..Len(Opened.paragraphs)
        BY <2>1 DEF IdsOK
      <3>2. 1..Len(Opened.paragraphs) \subseteq 1..Len(Flushed.paragraphs)
        BY <1>1
      <3> QED
        BY <1>1, <3>1, <3>2
    <2>2. CASE p = Open
      <3>1. p.id[1] = Opened.id /\ p.id[2] = Len(Flushed.paragraphs)
        BY <1>1, <2>2
      <3>2. Len(Flushed.paragraphs) \in 1..Len(Flushed.paragraphs)
        BY <1>1
      <3>3. Opened.id \in Taken(counter)
        BY DEF IdsOK
      <3> QED
        BY <3>1, <3>2, <3>3
    <2> QED
      BY <1>3, <2>1, <2>2
  <1>6. Len(Flushed.paragraphs) \in Nat
    BY <1>1
  <1>7. IdsOK(sections, Flushed, Grown, counter)
    BY <1>1, <1>5, <1>6 DEF IdsOK
  <1> QED
    BY <1>4, <1>7

(* The open section is closed and the next one opened.                     *)
LEMMA IdsClosed ==
    ASSUME NEW secs, IsSequence(secs), NEW top, NEW paras, NEW n, IdsOK(secs, top, paras, n)
    PROVE  LET next == [id |-> <<"section", n + 1>>, paragraphs |-> << >>] IN
           /\ DistinctIds(Append(secs, top))
           /\ IdsOK(Append(secs, top), next, paras, n + 1)
           /\ IdsOK(secs, next, paras, n + 1)
  <1> DEFINE next == [id |-> <<"section", n + 1>>, paragraphs |-> << >>]
             more == Append(secs, top)
  <1>1. PICK S : secs \in Seq(S)
    BY DEF IsSequence
  <1>2. n \in Nat
    BY DEF IdsOK
  <1>3. /\ Taken(n) \subseteq Taken(n + 1) /\ next.id \in Taken(n + 1) /\ next.id \notin Taken(n)
        /\ Len(next.paragraphs) = 0
    BY <1>2, TakenOnce
  <1>4. /\ Len(more) = Len(secs) + 1 /\ Len(secs) \in Nat
        /\ \A m \in 1..Len(secs) : more[m] = secs[m]
        /\ more[Len(secs) + 1] = top
    <2>1. secs \in Seq(S \cup {top}) /\ top \in S \cup {top}
      BY <1>1
    <2> QED
      BY <2>1, Appended
  <1> HIDE DEF more, next
  <1>5. \A m \in 1..Len(more) : m \in 1..Len(secs) \/ m = Len(secs) + 1
    BY <1>4
  <1>6. \A m \in 1..Len(secs) : secs[m].id \in Taken(n) /\ secs[m].id # top.id
    BY DEF IdsOK
  <1>7. DistinctIds(more)
    <2>1. \A m, k \in 1..Len(secs) : secs[m].id = secs[k].id => m = k
      BY DEF IdsOK, DistinctIds
    <2> QED
      BY <1>4, <1>5, <1>6, <2>1 DEF DistinctIds
  <1>8. \A m \in 1..Len(more) : more[m].id \in Taken(n)
    <2>1. top.id \in Taken(n)
      BY DEF IdsOK
    <2> QED
      BY <1>4, <1>5, <1>6, <2>1
  <1>9. \A p \in Range(paras) : p.id[1] \in Taken(n + 1) /\ p.id[1] # next.id
    BY <1>3 DEF IdsOK
  <1>10. n + 1 \in Nat /\ Len(next.paragraphs) \in Nat
    BY <1>2, <1>3
  <1>11. \A m \in 1..Len(more) : more[m].id \in Taken(n + 1) /\ more[m].id # next.id
    BY <1>3, <1>8
  <1>12. \A m \in 1..Len(secs) : secs[m].id \in Taken(n + 1) /\ secs[m].id # next.id
    BY <1>3, <1>6
  <1>13. DistinctIds(secs)
    BY DEF IdsOK
  <1> HIDE DEF DistinctIds
  <1> QED
    BY <1>3, <1>7, <1>9, <1>10, <1>11, <1>12, <1>13 DEF IdsOK, more, next

-----------------------------------------------------------------------------
LEMMA Merged ==
    ASSUME NEW S, NEW refs \in Seq(S), NEW more \in Seq(S)
    PROVE  /\ MergeReferences(refs, more) \in Seq(S)
           /\ Range(MergeReferences(refs, more)) = Range(refs) \cup Range(more)
           /\ Located /\ IsInjective(refs) => IsInjective(MergeReferences(refs, more))
  <1> DEFINE N == Len(more)
             seen(n) == {more[m] : m \in 1..n}
             known(n) == Range(refs) \cup {more[m] : m \in 1..n - 1}
             piece(n) == IF more[n] \in known(n) THEN << >> ELSE <<more[n]>>
             seqs == [n \in 1..N |-> piece(n)]
  <1>1. N \in Nat /\ \A n \in 1..N : more[n] \in S
    OBVIOUS
  <1>2. MergeReferences(refs, more) = IF ~Located THEN refs \o more ELSE refs \o Concat(seqs)
    BY Zenon DEF MergeReferences
  <1>3. \A n \in 1..N : piece(n) \in Seq(S)
    <2> HIDE DEF known, N
    <2> QED
      BY <1>1
  <1> HIDE DEF piece
  <1>4. seqs \in Seq(Seq(S)) /\ Len(seqs) = N /\ \A n \in 1..N : seqs[n] = piece(n)
    <2> DEFINE Q == Seq(S)
    <2>1. seqs \in [1..N -> Q]
      BY <1>3
    <2>2. \A n \in 1..N : seqs[n] = piece(n)
      OBVIOUS
    <2> HIDE DEF seqs, Q, N
    <2>3. seqs \in Seq(Q) /\ Len(seqs) = N
      BY <1>1, <2>1, Sequenced
    <2> QED
      BY <2>2, <2>3 DEF Q
  <1> HIDE DEF seqs
  <1>5. PICK F : /\ F[0] = << >>
                 /\ \A n \in 1..Len(seqs) : F[n] = F[n - 1] \o seqs[n]
                 /\ \A n \in 0..Len(seqs) : F[n] \in Seq(S)
                 /\ Concat(seqs) = F[Len(seqs)]
    BY <1>4, ConcatUpto, Zenon
  <1>6. Range(more) = seen(N)
    BY <1>1 DEF Range
  <1> HIDE DEF N
  <1> DEFINE OK(n) == Range(F[n]) = seen(n) \ Range(refs) /\ IsInjective(F[n])
  <1>7. \A n \in 0..N : OK(n)
    <2> DEFINE Bad == {n \in 0..N : ~OK(n)}
    <2> SUFFICES ASSUME Bad # {} PROVE FALSE
      OBVIOUS
    <2>0. Bad \in SUBSET Nat
      BY <1>1
    <2>1. PICK k \in Bad : \A j \in Bad : k <= j
      <3> HIDE DEF Bad
      <3> QED
        BY <2>0, NatMin
    <2>2. k # 0
      <3>1. Range(F[0]) = {} /\ seen(0) = {} /\ IsInjective(F[0])
        BY <1>5 DEF Range, IsInjective
      <3> QED
        BY <2>1, <3>1
    <2>3. k \in 1..N /\ k - 1 \in 0..N /\ ~(k <= k - 1)
      BY <1>1, <2>1, <2>2
    <2>4. OK(k - 1)
      BY <2>1, <2>3
    <2>5. seen(k) = seen(k - 1) \cup {more[k]} /\ known(k) = Range(refs) \cup seen(k - 1)
      <3>1. \A j \in 1..k : j \in 1..k - 1 \/ j = k
        BY <2>3
      <3>2. (\A j \in 1..k - 1 : j \in 1..k) /\ k \in 1..k
        BY <2>3
      <3> QED
        BY <3>1, <3>2
    <2> DEFINE f == F[k - 1]
               x == more[k]
    <2>6. f \in Seq(S) /\ x \in S /\ F[k] = f \o piece(k)
      BY <1>1, <1>4, <1>5, <2>3
    <2> HIDE DEF f, x
    <2>7. CASE x \in known(k)
      <3>1. F[k] = f
        <4>1. piece(k) = << >>
          BY <2>7 DEF piece, x
        <4> HIDE DEF Bad
        <4> QED
          BY <2>6, <4>1
      <3>2. seen(k) \ Range(refs) = seen(k - 1) \ Range(refs)
        BY <2>5, <2>7 DEF x
      <3> QED
        BY <2>1, <2>4, <3>1, <3>2 DEF f
    <2>8. CASE x \notin known(k)
      <3> DEFINE one == <<x>>
      <3>1. one \in Seq(S) /\ F[k] = f \o one /\ Range(one) = {x} /\ IsInjective(one)
        <4>1. piece(k) = <<x>>
          BY <2>8 DEF piece, x
        <4>2. Range(<<x>>) = {x} /\ IsInjective(<<x>>)
          BY DEF Range, IsInjective
        <4> QED
          BY <2>6, <4>1, <4>2
      <3> HIDE DEF one, Bad
      <3>2. Range(f) = seen(k - 1) \ Range(refs) /\ IsInjective(f)
        BY <2>4 DEF f
      <3>3. x \notin Range(f) /\ x \notin Range(refs)
        BY <2>5, <2>8, <3>2
      <3>4. Range(F[k]) = Range(f) \cup {x}
        BY <2>6, <3>1, JoinedRange
      <3>5. IsInjective(F[k])
        BY <2>6, <3>1, <3>2, <3>3, JoinedOnce
      <3>6. Range(F[k]) = seen(k) \ Range(refs)
        BY <2>5, <3>2, <3>3, <3>4 DEF x
      <3> QED
        BY <2>1, <3>5, <3>6 DEF Bad
    <2> QED
      BY <2>7, <2>8
  <1>8. N \in 0..N /\ Len(seqs) = N
    BY <1>1, <1>4
  <1> DEFINE new == Concat(seqs)
  <1>9. new \in Seq(S) /\ Range(new) = Range(more) \ Range(refs) /\ IsInjective(new)
    BY <1>5, <1>6, <1>7, <1>8
  <1> HIDE DEF new, OK, seen, known
  <1>10. CASE ~Located
    <2>1. refs \o more \in Seq(S) /\ Range(refs \o more) = Range(refs) \cup Range(more)
      BY JoinedRange
    <2> QED
      BY <1>2, <1>10, <2>1
  <1>11. CASE Located
    <2>1. refs \o new \in Seq(S) /\ Range(refs \o new) = Range(refs) \cup Range(new)
      BY <1>9, JoinedRange
    <2>2. IsInjective(refs) => IsInjective(refs \o new)
      BY <1>9, JoinedOnce
    <2>3. MergeReferences(refs, more) = refs \o new
      BY <1>2, <1>11 DEF new
    <2> QED
      BY <1>9, <2>1, <2>2, <2>3
  <1> QED
    BY <1>10, <1>11

-----------------------------------------------------------------------------
(* Before the element or the page it is at, everything is linked.          *)
IdsNow == IdsOK(sections, Opened, AllParas, counter)

LinksNow ==
    /\ pending \in Seq(Spoken(at[1]))
    /\ IsSequence(citations)
    /\ Linked(AllParas, citations, claims)

ReferencesNow ==
    /\ at[1] <= Len(fragments) + 1
    /\ \A j \in 1..at[1] - 1 : Range(ReferencesIn(FileOf(j))) \subseteq Range(references)
    /\ Located => IsInjective(references)

PagesLinked(secs, paras, n, i) ==
    /\ n \in Nat
    /\ DistinctIds(secs) /\ \A m \in 1..Len(secs) : secs[m].id \in Taken(n)
    /\ DistinctIds(paras) /\ \A p \in Range(paras) : p.id[1][2] \in 1..i - 1

LinkInv ==
    /\ stage = "source" => /\ at = <<1, 1>> /\ counter = 0
                           /\ citations = << >> /\ claims = << >> /\ references = << >>
    /\ stage = "merge" => IdsNow /\ LinksNow /\ ReferencesNow
    /\ stage = "pages" => /\ PagesLinked(sections, Paragraphs, counter, at[1])
                          /\ citations = << >> /\ claims = << >>
    /\ DocumentLinked

LEMMA LinksSame ==
    ASSUME UNCHANGED <<text, fragments>>
    PROVE  /\ \A a, b, c : Linked(a, b, c)' <=> Linked(a, b, c)
           /\ \A p, x : (Cites(p, x)' <=> Cites(p, x)) /\ (Claims(p, x)' <=> Claims(p, x))
           /\ \A c, p : CitedIn(c, p)' <=> CitedIn(c, p)
           /\ \A i : Spoken(i)' = Spoken(i) /\ FileOf(i)' = FileOf(i)
           /\ \A f : ReferencesIn(f)' = ReferencesIn(f)
           /\ Located' <=> Located
  <1>1. /\ \A i : FileOf(i)' = FileOf(i)
        /\ \A e : Says(e)' = Says(e)
    BY DEF FileOf, Says
  <1>2. \A p, x : (Cites(p, x)' <=> Cites(p, x)) /\ (Claims(p, x)' <=> Claims(p, x))
    BY <1>1, Zenon DEF Cites, Claims, Claiming
  <1>3. \A c, p : CitedIn(c, p)' <=> CitedIn(c, p)
    BY <1>1, Zenon DEF CitedIn
  <1>4. \A a, b, c : Linked(a, b, c)' <=> Linked(a, b, c)
    <2> SUFFICES ASSUME NEW a, NEW b, NEW c PROVE Linked(a, b, c)' <=> Linked(a, b, c)
      OBVIOUS
    <2>1. DistinctIds(a)' <=> DistinctIds(a)
      BY DEF DistinctIds
    <2>2. DistinctIds(b)' <=> DistinctIds(b)
      BY DEF DistinctIds
    <2>3. DistinctIds(c)' <=> DistinctIds(c)
      BY DEF DistinctIds
    <2>4. (\A p \in Range(a) : Cites(p, b) /\ Claims(p, c))'
            <=> \A p \in Range(a) : Cites(p, b) /\ Claims(p, c)
      BY <1>2, Zenon
    <2>5. (\A x \in Range(b) : x.id[1] = x.location /\ \E p \in Range(a) : CitedIn(x, p))'
            <=> \A x \in Range(b) : x.id[1] = x.location /\ \E p \in Range(a) : CitedIn(x, p)
      BY <1>3, Zenon
    <2>6. (\A x \in Range(c) : x.id[1] = x.location /\ \E p \in Range(a) : x.location = p.id)'
            <=> \A x \in Range(c) : x.id[1] = x.location /\ \E p \in Range(a) : x.location = p.id
      OBVIOUS
    <2> QED
      BY <2>1, <2>2, <2>3, <2>4, <2>5, <2>6, Zenon DEF Linked
  <1>5. \A i : Spoken(i)' = Spoken(i)
    BY <1>1, Zenon DEF Spoken
  <1>6. \A f : ReferencesIn(f)' = ReferencesIn(f)
    <2> SUFFICES ASSUME NEW f PROVE ReferencesIn(f)' = ReferencesIn(f)
      OBVIOUS
    <2>1. text[f]' = text[f]
      OBVIOUS
    <2>2. \A k : IsFirst(f, k)' <=> IsFirst(f, k)
      BY <2>1, Zenon DEF IsFirst, Before
    <2>3. {k \in 1..Len(text[f]) : text[f][k].kind = "bibliography" /\ IsFirst(f, k)}'
            = {k \in 1..Len(text[f]) : text[f][k].kind = "bibliography" /\ IsFirst(f, k)}
      BY <2>1, <2>2, Zenon
    <2> QED
      BY <2>1, <2>3, Zenon DEF ReferencesIn
  <1>7. Located' <=> Located
    BY DEF Located
  <1> QED
    BY <1>1, <1>2, <1>3, <1>4, <1>5, <1>6, <1>7

LEMMA IdsMoved ==
    ASSUME NEW secs, NEW top, NEW paras, NEW n, IdsOK(secs, top, paras, n),
           sections' = secs, Opened' = top, AllParas' = paras, counter' = n
    PROVE  IdsNow'
  <1> DEFINE a == sections'
             b == Opened'
             c == AllParas'
             d == counter'
  <1>1. a = secs /\ b = top /\ c = paras /\ d = n
    OBVIOUS
  <1> HIDE DEF a, b, c, d
  <1>2. IdsOK(a, b, c, d)
    BY <1>1
  <1> QED
    BY <1>2, Zenon DEF IdsNow, IdsOK, DistinctIds, Taken, a, b, c, d

LEMMA LinksMoved ==
    ASSUME UNCHANGED <<text, fragments>>, NEW paras, NEW par, NEW i, NEW cits, NEW cls,
           AllParas' = paras, pending' = par, at'[1] = i, citations' = cits, claims' = cls,
           par \in Seq(Spoken(i)), IsSequence(cits), Linked(paras, cits, cls)
    PROVE  LinksNow'
  <1>1. Linked(paras, cits, cls)'
    BY LinksSame
  <1>2. Linked(AllParas, citations, claims)'
    <2> DEFINE a == AllParas'
               b == citations'
               c == claims'
    <2>1. a = paras /\ b = cits /\ c = cls
      OBVIOUS
    <2>2. DistinctIds(AllParas)' /\ DistinctIds(citations)' /\ DistinctIds(claims)'
      <3>1. DistinctIds(paras) /\ DistinctIds(cits) /\ DistinctIds(cls)
        BY DEF Linked
      <3> HIDE DEF AllParas
      <3> QED
        BY <3>1 DEF DistinctIds
    <2>3. \A e : Says(e)' = Says(e)
      BY DEF FileOf, Says
    <2>4. \A p : (Cites(p, citations)' <=> Cites(p, cits)) /\ (Claims(p, claims)' <=> Claims(p, cls))
      <3>1. \A p : Claiming(p.lines)' = Claiming(p.lines)
        BY <2>3, Zenon DEF Claiming
      <3> QED
        BY <2>1, <2>3, <3>1, Zenon DEF Cites, Claims, b, c
    <2>5. \A d, p : CitedIn(d, p)' <=> CitedIn(d, p)
      BY LinksSame
    <2>6. /\ \A p \in Range(paras) : Cites(p, cits) /\ Claims(p, cls)
          /\ \A d \in Range(cits) : d.id[1] = d.location /\ \E p \in Range(paras) : CitedIn(d, p)
          /\ \A d \in Range(cls) : d.id[1] = d.location /\ \E p \in Range(paras) : d.location = p.id
      BY Zenon DEF Linked
    <2> HIDE DEF a, b, c, AllParas
    <2>7. Range(AllParas)' = Range(paras) /\ Range(citations)' = Range(cits) /\ Range(claims)' = Range(cls)
      OBVIOUS
    <2> QED
      BY <2>2, <2>4, <2>5, <2>6, <2>7, Zenon DEF Linked
  <1>3. Spoken(at[1])' = Spoken(i)
    <2>1. Spoken(at[1])' = Spoken(i)'
      BY Zenon DEF Spoken, Says, FileOf
    <2> QED
      BY <2>1, LinksSame
  <1>4. IsSequence(citations')
    OBVIOUS
  <1> HIDE DEF AllParas
  <1> QED
    BY <1>2, <1>3, <1>4 DEF LinksNow, IsSequence

LEMMA ReferencesMoved ==
    ASSUME UNCHANGED <<text, fragments>>, at'[1] = at[1], references' = references, ReferencesNow
    PROVE  ReferencesNow'
  <1>1. /\ \A j : FileOf(j)' = FileOf(j)
        /\ \A f : ReferencesIn(f)' = ReferencesIn(f)
        /\ Located' <=> Located
    BY LinksSame
  <1>2. \A j : ReferencesIn(FileOf(j))' = ReferencesIn(FileOf(j))
    <2>1. text' = text /\ fragments' = fragments
      OBVIOUS
    <2> SUFFICES ASSUME NEW j PROVE ReferencesIn(FileOf(j))' = ReferencesIn(FileOf(j))
      OBVIOUS
    <2>2. FileOf(j)' = FileOf(j)
      BY <1>1
    <2>3. text[FileOf(j)]' = text[FileOf(j)]
      BY <2>1, <2>2
    <2>4. \A k : IsFirst(FileOf(j), k)' <=> IsFirst(FileOf(j), k)
      BY <2>3, Zenon DEF IsFirst, Before
    <2>5. {k \in 1..Len(text[FileOf(j)]) : text[FileOf(j)][k].kind = "bibliography" /\ IsFirst(FileOf(j), k)}'
            = {k \in 1..Len(text[FileOf(j)]) : text[FileOf(j)][k].kind = "bibliography" /\ IsFirst(FileOf(j), k)}
      BY <2>3, <2>4, Zenon
    <2> QED
      BY <2>3, <2>5, Zenon DEF ReferencesIn
  <1> QED
    BY <1>1, <1>2, Zenon DEF ReferencesNow, IsInjective

(* The paragraph that ends takes its citations and its claim with it.      *)
LEMMA FlushLinked ==
    ASSUME ResolverTypeOK, DocumentInv, format # "pdf", IdsNow, LinksNow, at[1] <= Len(fragments),
           Flush, AllParas' = Grown, UNCHANGED <<text, fragments>>
    PROVE  LinksNow'
  <1>1. at[1] \in Nat \ {0}
    BY DEF DocumentInv
  <1>2. << >> \in Seq(Spoken(at'[1])) /\ pending' = << >>
    BY DEF Flush
  <1>3. IsSequence(citations) /\ IsSequence(claims) /\ Linked(AllParas, citations, claims)
    BY DEF LinksNow, DocumentInv
  <1>4. PICK Q : AllParas \in Seq(Q) /\ Open \in Q
    BY ParasTyped
  <1> DEFINE nc == CitationsIn(pending)
             nd == ClaimsIn(Cleaned(pending))
  <1>5. /\ citations' = citations \o IF Kept THEN nc ELSE << >>
        /\ claims' = claims \o IF Kept THEN nd ELSE << >>
    BY Zenon DEF Flush
  <1>6. CASE Kept
    <2>1. /\ IsSequence(nc) /\ DistinctIds(nc) /\ Cites(Open, nc)
          /\ \A c \in Range(nc) : c.id[1] = c.location /\ CitedIn(c, Open)
      BY <1>1, <1>6, CitationsBrought DEF LinksNow
    <2>2. /\ IsSequence(nd) /\ DistinctIds(nd) /\ Claims(Open, nd)
          /\ \A c \in Range(nd) : c.id[1] = c.location /\ c.location = Open.id
      BY ClaimsBrought
    <2>3. Fresh(Open, AllParas)
      BY <1>6, IdsGrow DEF IdsNow, Fresh
    <2>4. Grown = Append(AllParas, Open) /\ citations' = citations \o nc /\ claims' = claims \o nd
      BY <1>5, <1>6 DEF Grown
    <2> HIDE DEF nc, nd, AllParas, Open, Grown
    <2>5. Brought(Open, nc, nd)
      BY <2>1, <2>2 DEF Brought
    <2>6. /\ Linked(Append(AllParas, Open), citations \o nc, claims \o nd)
          /\ IsSequence(citations \o nc)
      BY <1>3, <1>4, <2>1, <2>2, <2>3, <2>5, LinkedGrows
    <2>7. Linked(Grown, citations', claims') /\ IsSequence(citations')
      BY <2>4, <2>6
    <2> QED
      BY <1>2, <2>7, LinksMoved
  <1>7. CASE ~Kept
    <2>1. citations \o << >> = citations /\ claims \o << >> = claims
      BY <1>3 DEF IsSequence
    <2>2. Grown = AllParas /\ citations' = citations /\ claims' = claims
      BY <1>5, <1>7, <2>1 DEF Grown
    <2> HIDE DEF AllParas, Grown
    <2>3. AllParas' = AllParas
      BY <2>2
    <2> QED
      BY <1>2, <1>3, <2>2, <2>3, LinksMoved
  <1> QED
    BY <1>6, <1>7

(* The ids when a paragraph ends, and when a section does.                 *)
LEMMA FlushIds ==
    ASSUME DocumentInv, format # "pdf", IdsNow, AllParas' = Grown,
           \/ current' = Flushed /\ UNCHANGED <<counter, sections>>
           \/ /\ sections' = Closed(Flushed) /\ counter' = counter + 1
              /\ current' = [id |-> <<"section", counter + 1>>, paragraphs |-> << >>]
    PROVE  IdsNow'
  <1> DEFINE top == IF Kept THEN Flushed ELSE Opened
             next == [id |-> <<"section", counter + 1>>, paragraphs |-> << >>]
  <1>1. IdsOK(sections, top, Grown, counter)
    <2>1. IdsOK(sections, Opened, AllParas, counter)
      BY DEF IdsNow
    <2>2. /\ Kept => IdsOK(sections, Flushed, Grown, counter)
          /\ ~Kept => Grown = AllParas
      BY <2>1, IdsGrow
    <2> HIDE DEF Grown, AllParas, Flushed, Opened, Kept
    <2> QED
      BY <2>1, <2>2
  <1>2. /\ Kept => Flushed # NoSection
        /\ ~Kept => Flushed = current
    BY FlushedTop
  <1> HIDE DEF Grown, AllParas, Flushed, Kept
  <1>3. CASE current' = Flushed /\ UNCHANGED <<counter, sections>>
    <2>1. Opened' = top
      BY <1>2, <1>3 DEF Opened
    <2> HIDE DEF top
    <2> QED
      BY <1>1, <1>3, <2>1, IdsMoved
  <1>4. CASE sections' = Closed(Flushed) /\ counter' = counter + 1 /\ current' = next
    <2>1. next # NoSection
      <3>1. next.id[1] = "section" /\ NoSection.id[1] = "none"
        BY DEF NoSection
      <3> QED
        BY <3>1
    <2>2. Opened' = next
      BY <1>4, <2>1 DEF Opened
    <2>3. IsSequence(sections)
      BY DEF DocumentInv, IsSequence
    <2>4. /\ IdsOK(Append(sections, top), next, Grown, counter + 1)
          /\ IdsOK(sections, next, Grown, counter + 1)
      <3> HIDE DEF top
      <3> QED
        BY <1>1, <2>3, IdsClosed
    <2>5. Closed(Flushed) = Append(sections, top) \/ Closed(Flushed) = sections
      BY <1>2 DEF Closed, Opened
    <2> HIDE DEF top, next
    <2>6. IdsOK(Closed(Flushed), next, Grown, counter + 1)
      BY <2>4, <2>5
    <2> QED
      BY <1>4, <2>2, <2>6, IdsMoved
  <1> QED
    BY <1>3, <1>4

LEMMA ReadLineLinks ==
    ASSUME ResolverTypeOK, DocumentInv, LinkInv, ReadLine, UNCHANGED resolverVars
    PROVE  LinkInv'
  <1>1. /\ stage = "merge" /\ format = "latex" /\ UNCHANGED <<text, fragments, format, references>>
        /\ at[1] <= Len(fragments) /\ at[2] <= Len(text[FileOf(at[1])])
    BY DEF ReadLine, DocumentInv, resolverVars
  <1>2. at[1] \in Nat \ {0} /\ at[2] \in Nat \ {0} /\ at = <<at[1], at[2]>>
    BY DEF DocumentInv
  <1>3. IdsNow /\ LinksNow /\ ReferencesNow
    BY <1>1 DEF LinkInv
  <1>4. ASSUME at' = <<at[1], at[2] + 1>>, stage' = stage, IdsNow', LinksNow' PROVE LinkInv'
    <2>1. at'[1] = at[1]
      BY <1>4
    <2>2. ReferencesNow'
      BY <1>1, <1>3, <2>1, ReferencesMoved
    <2> QED
      BY <1>1, <1>4, <2>2 DEF LinkInv, DocumentLinked
  <1>5. CASE BlankLine /\ at' = <<at[1], at[2] + 1>> /\ UNCHANGED stage
    <2>1. current' = Flushed /\ Flush /\ UNCHANGED <<counter, sections>>
      BY <1>5 DEF BlankLine
    <2>2. AllParas' = Grown
      BY <1>1, <2>1, FlushGrows
    <2>3. IdsNow'
      BY <1>1, <1>3, <2>1, <2>2, FlushIds
    <2>4. LinksNow'
      BY <1>1, <1>3, <2>1, <2>2, FlushLinked
    <2> QED
      BY <1>4, <1>5, <2>3, <2>4
  <1>6. CASE SectionLine /\ at' = <<at[1], at[2] + 1>> /\ UNCHANGED stage
    <2>1. /\ Flush /\ sections' = Closed(Flushed) /\ counter' = counter + 1
          /\ current' = [id |-> <<"section", counter + 1>>, paragraphs |-> << >>]
      BY <1>6 DEF SectionLine
    <2>2. AllParas' = Grown
      BY <1>1, <2>1, FlushGrows
    <2>3. IdsNow'
      BY <1>1, <1>3, <2>1, <2>2, FlushIds
    <2>4. LinksNow'
      BY <1>1, <1>3, <2>1, <2>2, FlushLinked
    <2> QED
      BY <1>4, <1>6, <2>3, <2>4
  <1>7. CASE (StructuralLine \/ ProseLine) /\ at' = <<at[1], at[2] + 1>> /\ UNCHANGED stage
    <2>1. UNCHANGED <<counter, current, sections, citations, claims>>
      BY <1>7 DEF StructuralLine, ProseLine
    <2>2. AllParas' = AllParas /\ Opened' = Opened
      BY <2>1 DEF AllParas, ParasOf, Opened
    <2>3. IdsNow'
      <3>1. IdsOK(sections, Opened, AllParas, counter)
        BY <1>3 DEF IdsNow
      <3> HIDE DEF AllParas, Opened
      <3> QED
        BY <2>1, <2>2, <3>1, IdsMoved
    <2>4. pending' \in Seq(Spoken(at[1]))
      <3>1. pending \in Seq(Spoken(at[1]))
        BY <1>3 DEF LinksNow
      <3>2. CASE StructuralLine
        BY <3>1, <3>2 DEF StructuralLine
      <3>3. CASE ProseLine
        <4>1. at \in Spoken(at[1])
          <5>1. Says(at).kind \in {"prose", "comment"}
            BY <3>3 DEF ProseLine
          <5>2. at[2] \in 1..Len(text[FileOf(at[1])])
            <6>1. Len(text[FileOf(at[1])]) \in Nat
              BY <1>1, <1>2, FileAt
            <6> QED
              BY <1>1, <1>2, <6>1
          <5> QED
            BY <1>2, <5>1, <5>2 DEF Spoken
        <4>2. pending' = Append(pending, at)
          BY <3>3 DEF ProseLine
        <4> HIDE DEF Spoken
        <4> QED
          BY <3>1, <4>1, <4>2, Appended
      <3> QED
        BY <1>7, <3>2, <3>3
    <2>5. LinksNow'
      <3>1. IsSequence(citations) /\ Linked(AllParas, citations, claims)
        BY <1>3 DEF LinksNow
      <3>2. at'[1] = at[1]
        BY <1>7
      <3> HIDE DEF AllParas
      <3> QED
        BY <1>1, <2>1, <2>2, <2>4, <3>1, <3>2, LinksMoved
    <2> QED
      BY <1>4, <1>7, <2>3, <2>5
  <1>8. CASE stage' = "panic"
    BY <1>8 DEF LinkInv, DocumentLinked
  <1> QED
    BY <1>5, <1>6, <1>7, <1>8 DEF ReadLine, Panic

LEMMA EndFragmentLinks ==
    ASSUME ResolverTypeOK, DocumentInv, LinkInv, EndFragment, UNCHANGED resolverVars
    PROVE  LinkInv'
  <1> DEFINE i == at[1]
             f == FileOf(i)
             more == ReferencesIn(f)
             merged == MergeReferences(references, more)
  <1>1. /\ stage = "merge" /\ format = "latex" /\ UNCHANGED <<text, fragments, format>>
        /\ i <= Len(fragments)
    BY DEF EndFragment, DocumentInv, resolverVars
  <1>2. i \in Nat \ {0}
    BY DEF DocumentInv
  <1>3. IdsNow /\ LinksNow /\ ReferencesNow
    BY <1>1 DEF LinkInv
  <1>4. CASE /\ at' = <<i + 1, 1>> /\ current' = Flushed /\ Flush /\ references' = merged
             /\ UNCHANGED <<stage, counter, sections>>
    <2>1. AllParas' = Grown
      BY <1>1, <1>4, FlushGrows
    <2>2. IdsNow'
      BY <1>1, <1>3, <1>4, <2>1, FlushIds
    <2>3. LinksNow'
      BY <1>1, <1>3, <1>4, <2>1, FlushLinked
    <2>4. PICK S : references \in Seq(S) /\ more \in Seq(S)
      <3>1. PICK S0 : references \in Seq(S0)
        BY DEF DocumentInv, IsSequence
      <3>2. f \in Files
        BY <1>1, <1>2, FileAt
      <3>3. more \in Seq(Range(more))
        <4> HIDE DEF f
        <4> QED
          BY <3>2, ReferencesType
      <3> DEFINE S1 == Range(more)
      <3> HIDE DEF more, S1
      <3>4. references \in Seq(S0 \cup S1) /\ more \in Seq(S0 \cup S1)
        <4>1. more \in Seq(S1)
          BY <3>3 DEF S1
        <4> QED
          BY <3>1, <4>1
      <3> QED
        BY <3>4
    <2> HIDE DEF more
    <2>5. /\ Range(merged) = Range(references) \cup Range(more)
          /\ Located /\ IsInjective(references) => IsInjective(merged)
      BY <2>4, Merged
    <2> HIDE DEF merged
    <2>6. \A j \in 1..i : Range(ReferencesIn(FileOf(j))) \subseteq Range(merged)
      <3>1. \A j \in 1..i - 1 : Range(ReferencesIn(FileOf(j))) \subseteq Range(references)
        BY <1>3 DEF ReferencesNow
      <3>2. \A j \in 1..i : j \in 1..i - 1 \/ j = i
        BY <1>2
      <3> HIDE DEF i
      <3> QED
        BY <2>5, <3>1, <3>2 DEF more, f
    <2>7. ReferencesNow'
      <3>1. at'[1] = i + 1 /\ at'[1] - 1 = i /\ Len(fragments) \in Nat
        BY <1>2, <1>4, Lengths
      <3>2. at'[1] <= Len(fragments') + 1
        BY <1>1, <1>2, <3>1
      <3>3. \A j : ReferencesIn(FileOf(j))' = ReferencesIn(FileOf(j))
        BY <1>1, LinksSame
      <3>4. Located' <=> Located
        BY <1>1, LinksSame
      <3>5. IsInjective(references') <=> IsInjective(merged)
        BY <1>4
      <3>6. Located' => IsInjective(references')
        BY <1>3, <2>5, <3>4, <3>5 DEF ReferencesNow
      <3>7. (\A j \in 1..at[1] - 1 : Range(ReferencesIn(FileOf(j))) \subseteq Range(references))'
        <4>1. Range(references)' = Range(merged)
          BY <1>4
        <4>2. \A j : Range(ReferencesIn(FileOf(j)))' = Range(ReferencesIn(FileOf(j)))
          <5> SUFFICES ASSUME NEW j PROVE Range(ReferencesIn(FileOf(j)))' = Range(ReferencesIn(FileOf(j)))
            OBVIOUS
          <5>1. ReferencesIn(FileOf(j))' = ReferencesIn(FileOf(j))
            BY <3>3
          <5> QED
            BY <5>1 DEF Range
        <4> HIDE DEF i
        <4> QED
          BY <2>6, <3>1, <4>1, <4>2, Zenon
      <3> QED
        BY <3>2, <3>6, <3>7 DEF ReferencesNow, IsInjective
    <2> QED
      BY <1>1, <1>4, <2>2, <2>3, <2>7 DEF LinkInv, DocumentLinked
  <1>5. CASE stage' = "panic"
    BY <1>5 DEF LinkInv, DocumentLinked
  <1> QED
    BY <1>4, <1>5 DEF EndFragment, Panic

LEMMA FinalizeLinks ==
    ASSUME ResolverTypeOK, DocumentInv, LinkInv, Finalize, UNCHANGED resolverVars
    PROVE  LinkInv'
  <1>1. /\ stage = "merge" /\ stage' = "done" /\ format = "latex"
        /\ UNCHANGED <<text, fragments, format, citations, claims, references>>
        /\ at[1] > Len(fragments) /\ sections' = Closed(current)
    BY DEF Finalize, DocumentInv, resolverVars, extracts
  <1>2. at[1] \in Nat \ {0} /\ Len(fragments) \in Nat
    BY Lengths DEF DocumentInv
  <1>3. IdsNow /\ LinksNow /\ ReferencesNow
    BY <1>1 DEF LinkInv
  <1>4. at[1] - 1 = Len(fragments)
    BY <1>1, <1>2, <1>3 DEF ReferencesNow
  <1>5. DistinctIds(sections')
    <2>1. IdsOK(sections, Opened, AllParas, counter) /\ IsSequence(sections)
      BY <1>3 DEF IdsNow, DocumentInv, IsSequence
    <2> HIDE DEF AllParas, Opened
    <2>2. DistinctIds(sections)
      BY <2>1 DEF IdsOK
    <2>3. DistinctIds(Append(sections, Opened))
      BY <2>1, IdsClosed
    <2>4. sections' = sections \/ sections' = Append(sections, Opened)
      BY <1>1 DEF Closed, Opened
    <2> DEFINE new == sections'
    <2>5. new = sections \/ new = Append(sections, Opened)
      BY <2>4
    <2> HIDE DEF new
    <2>6. DistinctIds(new)
      BY <2>2, <2>3, <2>5
    <2> QED
      BY <2>6 DEF new, DistinctIds
  <1>6. Paragraphs' = AllParas
    <2>1. AllParas = ParasOf(Closed(current))
      BY <1>1, GrownParas
    <2>2. Paragraphs' = ParasOf(sections')
      BY DEF Paragraphs, ParasOf
    <2> QED
      BY <1>1, <2>1, <2>2
  <1>7. Linked(AllParas, citations, claims)
    BY <1>3 DEF LinksNow
  <1>8. /\ \A p \in Range(AllParas) : Cites(p, citations) /\ Claims(p, claims)
        /\ \A c \in Range(citations) : \E p \in Range(AllParas) : CitedIn(c, p)
        /\ DistinctIds(AllParas) /\ DistinctIds(citations) /\ DistinctIds(claims)
    BY <1>7, Zenon DEF Linked
  <1>9. /\ \A i \in 1..Len(fragments) : Range(ReferencesIn(FileOf(i))) \subseteq Range(references)
        /\ Located => Cardinality(Range(references)) = Len(references)
    <2>1. PICK S : references \in Seq(S)
      BY DEF DocumentInv, IsSequence
    <2>2. IsInjective(references) => Cardinality(Range(references)) = Len(references)
      BY <2>1, CountedRange
    <2> QED
      BY <1>3, <1>4, <2>2 DEF ReferencesNow
  <1>10. /\ \A p : (Cites(p, citations)' <=> Cites(p, citations)) /\ (Claims(p, claims)' <=> Claims(p, claims))
         /\ \A c, p : CitedIn(c, p)' <=> CitedIn(c, p)
    <2>1. \A e : Says(e)' = Says(e)
      BY <1>1 DEF Says, FileOf
    <2>2. \A p : Claiming(p.lines)' = Claiming(p.lines)
      BY <2>1, Zenon DEF Claiming
    <2>3. citations' = citations /\ claims' = claims
      BY <1>1
    <2>4. \A p : (Cites(p, citations)' <=> Cites(p, citations)) /\ (Claims(p, claims)' <=> Claims(p, claims))
      BY <2>1, <2>2, <2>3, Zenon DEF Cites, Claims
    <2>5. \A c, p : CitedIn(c, p)' <=> CitedIn(c, p)
      BY <1>1, LinksSame
    <2> QED
      BY <2>4, <2>5
  <1>11. /\ \A j : ReferencesIn(FileOf(j))' = ReferencesIn(FileOf(j))
         /\ (Located' <=> Located)
    BY <1>1, LinksSame
  <1>12. DocumentLinked'
    <2>1. DistinctIds(Document.sections)' /\ DistinctIds(Document.citations)' /\ DistinctIds(Document.claims)'
      <3>1. Document.sections = sections /\ Document.citations = citations /\ Document.claims = claims
        BY DEF Document
      <3>2. /\ Document.sections' = sections' /\ Document.citations' = citations
            /\ Document.claims' = claims
        BY <1>1 DEF Document
      <3> QED
        BY <1>1, <1>5, <1>8, <3>2 DEF DistinctIds
    <2> HIDE DEF AllParas
    <2>2. DistinctIds(Paragraphs)'
      BY <1>6, <1>8 DEF DistinctIds
    <2>3. Range(Paragraphs)' = Range(AllParas)
      BY <1>6
    <2>4. /\ (\A p \in Range(Paragraphs) : Cites(p, citations) /\ Claims(p, claims))'
          /\ (\A c \in Range(citations) : \E p \in Range(Paragraphs) : CitedIn(c, p))'
      <3>1. Range(citations)' = Range(citations)
        BY <1>1
      <3> QED
        BY <1>8, <1>10, <2>3, <3>1, Zenon
    <2>5. (\A i \in 1..Len(fragments) : Range(ReferencesIn(FileOf(i))) \subseteq Range(references))'
      <3>1. Range(references)' = Range(references) /\ fragments' = fragments
        BY <1>1
      <3>2. \A j : Range(ReferencesIn(FileOf(j)))' = Range(ReferencesIn(FileOf(j)))
        <4> SUFFICES ASSUME NEW j PROVE Range(ReferencesIn(FileOf(j)))' = Range(ReferencesIn(FileOf(j)))
          OBVIOUS
        <4>1. ReferencesIn(FileOf(j))' = ReferencesIn(FileOf(j))
          BY <1>11
        <4> QED
          BY <4>1 DEF Range
      <3> QED
        BY <1>9, <3>1, <3>2, Zenon
    <2>6. (Located => Cardinality(Range(references)) = Len(references))'
      BY <1>1, <1>9, <1>11
    <2> QED
      BY <2>1, <2>2, <2>4, <2>5, <2>6, Zenon DEF DocumentLinked
  <1> QED
    BY <1>1, <1>12 DEF LinkInv

LEMMA PagesMoved ==
    ASSUME NEW secs, NEW paras, NEW n, NEW i, PagesLinked(secs, paras, n, i),
           sections' = secs, Paragraphs' = paras, counter' = n, at'[1] = i
    PROVE  PagesLinked(sections, Paragraphs, counter, at[1])'
  <1> DEFINE a == sections'
             b == Paragraphs'
             c == counter'
             d == at'[1]
  <1>1. a = secs /\ b = paras /\ c = n /\ d = i
    OBVIOUS
  <1> HIDE DEF a, b, c, d
  <1>2. PagesLinked(a, b, c, d)
    BY <1>1
  <1> QED
    BY <1>2, Zenon DEF PagesLinked, DistinctIds, Taken, a, b, c, d

LEMMA ReadPageLinks ==
    ASSUME DocumentInv, LinkInv, ReadPage
    PROVE  LinkInv'
  <1>1. /\ stage = "pages" /\ format = "pdf" /\ UNCHANGED <<format, citations, claims>>
    BY DEF ReadPage, DocumentInv, extracts
  <1>2. at[1] \in Nat \ {0}
    BY DEF DocumentInv
  <1>3. PagesLinked(sections, Paragraphs, counter, at[1]) /\ citations = << >> /\ claims = << >>
    BY <1>1 DEF LinkInv
  <1>4. ASSUME at' = <<at[1] + 1, 1>>, stage' = stage, PagesLinked(sections, Paragraphs, counter, at[1])'
        PROVE  LinkInv'
    BY <1>1, <1>3, <1>4 DEF LinkInv, DocumentLinked
  <1>5. CASE stage' = "error"
    BY <1>5 DEF LinkInv, DocumentLinked
  <1>6. CASE at' = <<at[1] + 1, 1>> /\ UNCHANGED <<stage, counter, sections>>
    <2>1. Paragraphs' = Paragraphs
      BY <1>6 DEF Paragraphs
    <2>2. at'[1] = at[1] + 1 /\ \A q \in 1..at[1] - 1 : q \in 1..(at[1] + 1) - 1
      BY <1>2, <1>6
    <2> HIDE DEF Paragraphs
    <2>3. PagesLinked(sections, Paragraphs, counter, at[1] + 1)
      BY <1>3, <2>2 DEF PagesLinked
    <2>4. PagesLinked(sections, Paragraphs, counter, at[1])'
      BY <1>6, <2>1, <2>2, <2>3, PagesMoved
    <2> QED
      BY <1>4, <1>6, <2>4
  <1>7. CASE /\ at' = <<at[1] + 1, 1>> /\ stage' = stage /\ counter' = counter + 1
             /\ sections' = Append(sections,
                  [id |-> <<"section", counter + 1>>,
                   paragraphs |-> <<[id |-> <<<<"page", at[1]>>, 1>>, lines |-> <<at>>,
                                     start |-> [file |-> Root, line |-> at[1]]]>>])
    <2> DEFINE page == [id |-> <<<<"page", at[1]>>, 1>>, lines |-> <<at>>,
                        start |-> [file |-> Root, line |-> at[1]]]
               sec == [id |-> <<"section", counter + 1>>, paragraphs |-> <<page>>]
               N == counter
    <2>1. /\ sections' = Append(sections, sec) /\ page.id[1][2] = at[1]
          /\ sec.id = <<"section", counter + 1>>
      BY <1>7
    <2>2. PICK Q : Paragraphs' = Paragraphs \o <<page>> /\ Paragraphs \in Seq(Q) /\ page \in Q
      <3> HIDE DEF page
      <3> QED
        BY <2>1, PageAppended
    <2>3. N \in Nat
      BY <1>3 DEF PagesLinked
    <2>4. /\ Taken(N) \subseteq Taken(N + 1) /\ sec.id \in Taken(N + 1) /\ sec.id \notin Taken(N)
      BY <2>1, <2>3, TakenOnce
    <2>5. PICK S : sections \in Seq(S) /\ sec \in S
      <3>1. PICK S0 : sections \in Seq(S0)
        BY DEF DocumentInv
      <3> DEFINE S1 == S0 \cup {sec}
      <3> HIDE DEF sec
      <3>2. sections \in Seq(S1) /\ sec \in S1
        BY <3>1
      <3> QED
        BY <3>2
    <2> DEFINE old == Paragraphs
               one == <<page>>
               new == old \o one
               more == Append(sections, sec)
    <2> HIDE DEF page, sec
    <2>6. /\ old \in Seq(Q) /\ one \in Seq(Q) /\ Paragraphs' = new
          /\ Range(one) = {page} /\ DistinctIds(one)
      <3>1. Range(<<page>>) = {page} /\ DistinctIds(<<page>>)
        BY DEF Range, DistinctIds
      <3> QED
        BY <2>2, <3>1
    <2>7. /\ Len(more) = Len(sections) + 1 /\ Len(sections) \in Nat
          /\ \A m \in 1..Len(sections) : more[m] = sections[m]
          /\ more[Len(sections) + 1] = sec
      BY <2>5, Appended
    <2> HIDE DEF old, one, new, more, N
    <2>8. /\ DistinctIds(sections) /\ \A m \in 1..Len(sections) : sections[m].id \in Taken(N)
          /\ DistinctIds(old) /\ \A p \in Range(old) : p.id[1][2] \in 1..at[1] - 1
      BY <1>3 DEF PagesLinked, old, N
    <2>9. \A m \in 1..Len(more) : m \in 1..Len(sections) \/ m = Len(sections) + 1
      BY <2>7
    <2>10. DistinctIds(more) /\ \A m \in 1..Len(more) : more[m].id \in Taken(N + 1)
      <3>1. \A m, k \in 1..Len(sections) : sections[m].id = sections[k].id => m = k
        BY <2>8 DEF DistinctIds
      <3>2. DistinctIds(more)
        BY <2>4, <2>7, <2>8, <2>9, <3>1 DEF DistinctIds
      <3>3. \A m \in 1..Len(more) : more[m].id \in Taken(N + 1)
        BY <2>4, <2>7, <2>8, <2>9
      <3> QED
        BY <3>2, <3>3
    <2>11. DistinctIds(new) /\ \A p \in Range(new) : p.id[1][2] \in 1..at[1]
      <3>1. at[1] \notin 1..at[1] - 1 /\ at[1] \in 1..at[1]
            /\ \A q \in 1..at[1] - 1 : q \in 1..at[1]
        BY <1>2
      <3>2. \A p \in Range(old), q \in Range(one) : p.id # q.id
        BY <2>1, <2>6, <2>8, <3>1
      <3>3. DistinctIds(new)
        BY <2>6, <2>8, <3>2, JoinedDistinct DEF new
      <3>4. Range(new) = Range(old) \cup Range(one)
        BY <2>6, JoinedRange DEF new
      <3> QED
        BY <2>1, <2>6, <2>8, <3>1, <3>3, <3>4
    <2>12. at'[1] = at[1] + 1 /\ (at[1] + 1) - 1 = at[1] /\ N + 1 \in Nat
      BY <1>2, <1>7, <2>3
    <2>13. PagesLinked(more, new, N + 1, at[1] + 1)
      BY <2>10, <2>11, <2>12 DEF PagesLinked
    <2>14. PagesLinked(sections, Paragraphs, counter, at[1])'
      <3>1. sections' = more /\ counter' = N + 1
        BY <1>7, <2>1 DEF more, N
      <3> HIDE DEF Paragraphs
      <3> QED
        BY <2>6, <2>12, <2>13, <3>1, PagesMoved
    <2> QED
      BY <1>4, <1>7, <2>14
  <1> QED
    BY <1>5, <1>6, <1>7 DEF ReadPage

LEMMA NothingLinked ==
    /\ IsSequence(<< >>) /\ DistinctIds(<< >>) /\ Linked(<< >>, << >>, << >>) /\ IsInjective(<< >>)
    /\ Range(<< >>) = {} /\ Len(<< >>) = 0
  <1>1. Range(<< >>) = {} /\ Len(<< >>) = 0 /\ IsInjective(<< >>) /\ << >> \in Seq({})
    BY DEF Range, IsInjective
  <1>2. DistinctIds(<< >>)
    BY <1>1 DEF DistinctIds
  <1> QED
    BY <1>1, <1>2 DEF Linked, IsSequence

LEMMA InitLinks == PipelineInit => LinkInv
  BY DEF PipelineInit, SourceInit, LinkInv, DocumentLinked

LEMMA BeginLinks ==
    ASSUME ResolverTypeOK, DocumentInv, LinkInv, BeginMerge \/ OpenPdf, UNCHANGED resolverVars
    PROVE  LinkInv'
  <1>1. /\ stage = "source" /\ at = <<1, 1>> /\ pending = << >> /\ sections = << >> /\ counter = 0
        /\ current = NoSection /\ citations = << >> /\ claims = << >> /\ references = << >>
        /\ UNCHANGED <<text, fragments, at, pending, counter, current, sections, citations, claims, references>>
        /\ stage' \in {"merge", "pages", "error"}
    BY DEF BeginMerge, OpenPdf, DocumentInv, LinkInv, resolverVars, extracts
  <1>2. at'[1] = 1 /\ 1..1 - 1 = {} /\ 1..0 = {}
    BY <1>1
  <1>3. CASE stage' = "merge"
    <2>1. AllParas' = << >>
      <3>1. current.paragraphs = << >> /\ << >> \o << >> = << >>
        BY <1>1 DEF NoSection
      <3>2. AllParas' = ParasOf(<< >>) \o << >>
        BY <1>1, <3>1 DEF AllParas, ParasOf
      <3> QED
        BY <3>1, <3>2, NoParagraphs
    <2> DEFINE front == [id |-> <<"front", 0>>, paragraphs |-> << >>]
    <2>2. Opened' = front
      BY <1>1 DEF Opened
    <2>3. IdsOK(<< >>, front, << >>, 0)
      <3>1. front.id \in Taken(0) /\ front.paragraphs = << >>
        BY DEF Taken
      <3> HIDE DEF front
      <3> QED
        BY <1>2, <3>1, NothingLinked DEF IdsOK
    <2>4. IdsNow'
      <3> HIDE DEF front, AllParas, Opened
      <3> QED
        BY <1>1, <2>1, <2>2, <2>3, IdsMoved
    <2>5. LinksNow'
      <3>1. << >> \in Seq(Spoken(1))
        OBVIOUS
      <3> HIDE DEF AllParas
      <3> QED
        BY <1>1, <1>2, <2>1, <3>1, NothingLinked, LinksMoved
    <2>6. ReferencesNow'
      <3>1. Len(fragments) \in Nat
        BY <1>1, Lengths
      <3>2. 1 <= Len(fragments') + 1
        BY <1>1, <3>1
      <3> QED
        BY <1>1, <1>2, <3>2, NothingLinked DEF ReferencesNow
    <2> QED
      BY <1>3, <2>4, <2>5, <2>6 DEF LinkInv, DocumentLinked
  <1>4. CASE stage' = "pages"
    <2>1. Paragraphs' = << >>
      BY <1>1, NoParagraphs DEF Paragraphs, ParasOf
    <2>2. PagesLinked(<< >>, << >>, 0, 1)
      BY <1>2, NothingLinked DEF PagesLinked
    <2>3. PagesLinked(sections, Paragraphs, counter, at[1])'
      <3> HIDE DEF Paragraphs
      <3> QED
        BY <1>1, <1>2, <2>1, <2>2, PagesMoved
    <2> QED
      BY <1>1, <1>4, <2>3 DEF LinkInv, DocumentLinked
  <1>5. CASE stage' = "error"
    BY <1>5 DEF LinkInv, DocumentLinked
  <1> QED
    BY <1>1, <1>3, <1>4, <1>5

LEMMA ClosePdfLinks ==
    ASSUME DocumentInv, LinkInv, ClosePdf
    PROVE  LinkInv'
  <1>1. /\ stage = "pages" /\ format = "pdf" /\ stage' \in {"error", "done"}
        /\ UNCHANGED <<format, sections, citations, claims>>
    BY DEF ClosePdf, DocumentInv, extracts
  <1>2. /\ PagesLinked(sections, Paragraphs, counter, at[1]) /\ citations = << >> /\ claims = << >>
    BY <1>1 DEF LinkInv
  <1>3. Paragraphs' = Paragraphs
    BY <1>1 DEF Paragraphs
  <1>4. DistinctIds(sections)' /\ DistinctIds(Paragraphs)'
    <2> HIDE DEF Paragraphs
    <2> QED
      BY <1>1, <1>2, <1>3 DEF PagesLinked, DistinctIds
  <1>5. DistinctIds(Document.sections)' /\ DistinctIds(Document.citations)' /\ DistinctIds(Document.claims)'
    <2>1. Document.sections' = sections' /\ Document.citations' = << >> /\ Document.claims' = << >>
      BY <1>1, <1>2 DEF Document
    <2> HIDE DEF Document
    <2> QED
      BY <1>4, <2>1 DEF DistinctIds
  <1> QED
    BY <1>1, <1>4, <1>5, Zenon DEF LinkInv, DocumentLinked

LEMMA LinksStep ==
    ResolverInv /\ DocumentInv /\ LinkInv /\ [PipelineNext]_pipelineVars => LinkInv'
  <1> SUFFICES ASSUME ResolverInv, DocumentInv, LinkInv, [PipelineNext]_pipelineVars PROVE LinkInv'
    OBVIOUS
  <1>0. ResolverTypeOK
    BY DEF ResolverInv
  <1>1. CASE Resolve
    <2>1. stage = "source" /\ UNCHANGED <<stage, at, counter, citations, claims, references>>
      BY <1>1 DEF Resolve, docVars
    <2> QED
      BY <2>1 DEF LinkInv, DocumentLinked
  <1>2. CASE (BeginMerge \/ OpenPdf) /\ UNCHANGED resolverVars
    BY <1>0, <1>2, BeginLinks
  <1>3. CASE ReadLine /\ UNCHANGED resolverVars
    BY <1>0, <1>3, ReadLineLinks
  <1>4. CASE EndFragment /\ UNCHANGED resolverVars
    BY <1>0, <1>4, EndFragmentLinks
  <1>5. CASE Finalize /\ UNCHANGED resolverVars
    BY <1>0, <1>5, FinalizeLinks
  <1>6. CASE Unsupported
    BY <1>6 DEF Unsupported, LinkInv, DocumentLinked
  <1>7. CASE ReadPage
    BY <1>7, ReadPageLinks
  <1>8. CASE ClosePdf
    BY <1>8, ClosePdfLinks
  <1>9. CASE UNCHANGED sourceVars
    <2>1. UNCHANGED <<text, fragments, format, stage, at, pending, counter, current, sections,
                      citations, claims, references>>
      BY <1>9 DEF sourceVars
    <2>2. /\ AllParas' = AllParas /\ Opened' = Opened /\ Paragraphs' = Paragraphs
          /\ at'[1] = at[1] /\ Document.sections' = Document.sections
          /\ Document.citations' = Document.citations /\ Document.claims' = Document.claims
      BY <2>1 DEF AllParas, ParasOf, Opened, Paragraphs, Document
    <2>3. ASSUME stage = "merge" PROVE (IdsNow /\ LinksNow /\ ReferencesNow)'
      <3>1. IdsNow /\ LinksNow /\ ReferencesNow
        BY <2>3 DEF LinkInv
      <3> HIDE DEF AllParas, Opened
      <3>2. IdsNow'
        BY <2>1, <2>2, <3>1, IdsMoved DEF IdsNow
      <3>3. LinksNow'
        BY <2>1, <2>2, <3>1, LinksMoved DEF LinksNow
      <3>4. ReferencesNow'
        BY <2>1, <2>2, <3>1, ReferencesMoved
      <3> QED
        BY <3>2, <3>3, <3>4
    <2>4. ASSUME stage = "pages" PROVE PagesLinked(sections, Paragraphs, counter, at[1])'
      <3>1. PagesLinked(sections, Paragraphs, counter, at[1])
        BY <2>4 DEF LinkInv
      <3> HIDE DEF Paragraphs
      <3> QED
        BY <2>1, <2>2, <3>1, PagesMoved
    <2>5. DocumentLinked'
      <3> SUFFICES ASSUME stage = "done" PROVE DocumentLinked'
        BY <2>1 DEF DocumentLinked
      <3> DEFINE ps == Paragraphs
                 same == Paragraphs'
      <3>1. /\ DistinctIds(Document.sections) /\ DistinctIds(ps)
            /\ DistinctIds(Document.citations) /\ DistinctIds(Document.claims)
            /\ format = "latex" =>
                  /\ \A p \in Range(ps) : Cites(p, citations) /\ Claims(p, claims)
                  /\ \A c \in Range(citations) : \E p \in Range(ps) : CitedIn(c, p)
                  /\ \A i \in 1..Len(fragments) : Range(ReferencesIn(FileOf(i))) \subseteq Range(references)
                  /\ Located => Cardinality(Range(references)) = Len(references)
        BY DEF LinkInv, DocumentLinked
      <3>2. same = ps
        BY <2>2
      <3> HIDE DEF ps, same
      <3>3. /\ \A p : (Cites(p, citations)' <=> Cites(p, citations)) /\ (Claims(p, claims)' <=> Claims(p, claims))
            /\ \A c, p : CitedIn(c, p)' <=> CitedIn(c, p)
        <4>1. \A e : Says(e)' = Says(e)
          BY <2>1 DEF Says, FileOf
        <4>2. \A p : Claiming(p.lines)' = Claiming(p.lines)
          BY <4>1, Zenon DEF Claiming
        <4>3. \A p : (Cites(p, citations)' <=> Cites(p, citations)) /\ (Claims(p, claims)' <=> Claims(p, claims))
          BY <2>1, <4>1, <4>2, Zenon DEF Cites, Claims
        <4>4. \A c, p : CitedIn(c, p)' <=> CitedIn(c, p)
          BY <2>1, LinksSame
        <4> QED
          BY <4>3, <4>4
      <3>4. /\ DistinctIds(Document.sections)' /\ DistinctIds(Document.citations)'
            /\ DistinctIds(Document.claims)'
        <4> HIDE DEF Document
        <4> QED
          BY <2>2, <3>1 DEF DistinctIds
      <3>5. DistinctIds(Paragraphs)' /\ Range(Paragraphs)' = Range(ps)
        <4> HIDE DEF Paragraphs
        <4> QED
          BY <3>1, <3>2 DEF DistinctIds, same
      <3>6. /\ (\A p \in Range(Paragraphs) : Cites(p, citations) /\ Claims(p, claims))'
              <=> \A p \in Range(ps) : Cites(p, citations) /\ Claims(p, claims)
            /\ (\A c \in Range(citations) : \E p \in Range(Paragraphs) : CitedIn(c, p))'
              <=> \A c \in Range(citations) : \E p \in Range(ps) : CitedIn(c, p)
        <4>1. Range(citations)' = Range(citations)
          BY <2>1
        <4> QED
          BY <3>3, <3>5, <4>1, Zenon
      <3>7. (\A i \in 1..Len(fragments) : Range(ReferencesIn(FileOf(i))) \subseteq Range(references))'
              <=> \A i \in 1..Len(fragments) : Range(ReferencesIn(FileOf(i))) \subseteq Range(references)
        <4>1. \A j : Range(ReferencesIn(FileOf(j)))' = Range(ReferencesIn(FileOf(j)))
          <5> SUFFICES ASSUME NEW j PROVE Range(ReferencesIn(FileOf(j)))' = Range(ReferencesIn(FileOf(j)))
            OBVIOUS
          <5>1. ReferencesIn(FileOf(j))' = ReferencesIn(FileOf(j))
            BY <2>1, LinksSame
          <5> QED
            BY <5>1 DEF Range
        <4>2. Range(references)' = Range(references) /\ fragments' = fragments
          BY <2>1
        <4> QED
          BY <4>1, <4>2, Zenon
      <3>8. Located' <=> Located
        BY <2>1, LinksSame
      <3>9. (Located => Cardinality(Range(references)) = Len(references))'
              <=> (Located => Cardinality(Range(references)) = Len(references))
        BY <2>1, <3>8
      <3> QED
        BY <2>1, <3>1, <3>4, <3>5, <3>6, <3>7, <3>9, Zenon DEF DocumentLinked
    <2> QED
      BY <2>1, <2>3, <2>4, <2>5 DEF LinkInv
  <1>10. SourceNext \/ UNCHANGED sourceVars
    BY DEF PipelineNext, pipelineVars, sourceVars, Parse
  <1> QED
    BY <1>1, <1>2, <1>3, <1>4, <1>5, <1>6, <1>7, <1>8, <1>9, <1>10 DEF SourceNext

(* Ids are unique in the whole document, and citations, claims and         *)
(* references belong to its paragraphs and its files, whatever a project   *)
(* includes and however often (build_sections, parse_references).          *)
THEOREM DocumentAlwaysLinked == PipelineSpec => []DocumentLinked
  <1>1. LinkInv => DocumentLinked
    BY DEF LinkInv
  <1> QED
    BY <1>1, InitLinks, LinksStep, ResolverAlways, DocumentAlways, PTL DEF PipelineSpec
=============================================================================
