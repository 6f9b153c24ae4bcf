-------------------------- MODULE ServiceDiscovery ---------------------------
(***************************************************************************)
(* How a Paper Guard service is found on the local network (crate          *)
(* paper-guard-discovery): browse collects the answers that arrive within  *)
(* a window, verify_and_classify asks each candidate for its health, and   *)
(* select_service takes one only if there is nothing to choose.  Answers   *)
(* come in any order, again, late, or from services that are gone.         *)
(***************************************************************************)
EXTENDS Naturals, Sequences, FiniteSets, SequencesExt

CONSTANTS Services,      \* what may answer on the network
          NameOf, HostOf,\* instance name and hostname of each
          Malformed,     \* those whose record has no port
          PaperGuards,   \* those that identify themselves as Paper Guard
          VersionOf,     \* major version of each: "same", "other", "unknown"
          Preferences,   \* preferred_service: names, hostnames or NoPreference
          NoPreference,
          WINDOW         \* timeout_ms, in ticks

Refusals == {"NotFound", "IncompatibleVersion", "MalformedRecord"}

ASSUME DiscoveryAssumption ==
    /\ Services \cap (Refusals \cup {"none"}) = {}
    /\ Malformed \subseteq Services /\ PaperGuards \subseteq Services
    /\ VersionOf \in [Services -> {"same", "other", "unknown"}]
    /\ NoPreference \in Preferences
    /\ WINDOW \in Nat \ {0}

VARIABLES phase,      \* "off", "browse", "verify", "done" or "error"
          left,       \* ticks to the deadline
          heard,      \* services whose answer arrived in the window
          found,      \* endpoints
          outcomes,   \* verified: the outcome for each endpoint so far
          answer      \* what select_service said

discoveryVars == <<phase, left, heard, found, outcomes, answer>>

NoAnswer == [preferred |-> NoPreference, got |-> "none"]

DiscoveryInit ==
    /\ phase = "off" /\ left = 0
    /\ heard = {} /\ found = << >> /\ outcomes = << >>
    /\ answer = NoAnswer

-----------------------------------------------------------------------------
(* discover: the browse starts, or the mDNS daemon does not.               *)
Browse ==
    /\ phase = "off"
    /\ phase' \in {"browse", "error"}
    /\ left' = WINDOW
    /\ UNCHANGED <<heard, found, outcomes, answer>>

(* Mutant: one endpoint per host.                                          *)
KnownHost(s) == \E n \in 1..Len(found) : HostOf[found[n]] = HostOf[s]

(* A re-announcement of an instance is dropped, whatever it now says.      *)
Known(s) ==
    \E n \in 1..Len(found) : NameOf[found[n]] = NameOf[s] /\ HostOf[found[n]] = HostOf[s]

(* Mutant: each answer prolongs the window.                                *)
ResolvedRearms(s) ==
    /\ phase = "browse" /\ left > 0
    /\ heard' = heard \cup {s}
    /\ found' = IF s \in Malformed \/ Known(s) THEN found ELSE Append(found, s)
    /\ left' = WINDOW
    /\ UNCHANGED <<phase, outcomes, answer>>

(* ServiceResolved, of a service that runs or of one that did.             *)
Resolved(s) ==
    /\ phase = "browse" /\ left > 0
    /\ heard' = heard \cup {s}
    /\ found' = IF s \in Malformed \/ Known(s) THEN found ELSE Append(found, s)
    /\ UNCHANGED <<phase, left, outcomes, answer>>

Elapse ==
    /\ phase = "browse" /\ left > 0
    /\ left' = left - 1
    /\ UNCHANGED <<phase, heard, found, outcomes, answer>>

(* The receiver is disconnected: the browse fails.                         *)
Disconnect ==
    /\ phase = "browse"
    /\ phase' = "error"
    /\ UNCHANGED <<left, heard, found, outcomes, answer>>

CloseWindow ==
    /\ phase = "browse" /\ left = 0
    /\ phase' = "verify"
    /\ UNCHANGED <<left, heard, found, outcomes, answer>>

(* version_incompatible: a version that is not known is compatible.        *)
Incompatible(s) == VersionOf[s] = "other"

Classify(s, answers) ==
    IF ~answers \/ s \notin PaperGuards THEN "Rejected"
    ELSE IF Incompatible(s) THEN "IncompatibleVersion" ELSE "Verified"

(* verify_and_classify, of one candidate after the other; any may be gone  *)
(* by then.                                                                *)
Verify ==
    /\ phase = "verify" /\ Len(outcomes) < Len(found)
    /\ \E answers \in BOOLEAN :
          outcomes' = Append(outcomes, Classify(found[Len(outcomes) + 1], answers))
    /\ UNCHANGED <<phase, left, heard, found, answer>>

Eligible == {n \in 1..Len(found) : outcomes[n] = "Verified"}

Matching(preferred) ==
    {n \in Eligible : preferred \in {NameOf[found[n]], HostOf[found[n]]}}

(* Mutant: the last match is taken, however many there are.                *)
SelectServiceLast(preferred) ==
    LET wanted == IF preferred = NoPreference THEN Eligible ELSE Matching(preferred) IN
    IF Eligible = {} THEN "NotFound"
    ELSE IF wanted = {} THEN "MalformedRecord"
    ELSE found[CHOOSE n \in wanted : \A k \in wanted : k <= n]

SelectService(preferred) ==
    LET wanted == IF preferred = NoPreference THEN Eligible ELSE Matching(preferred) IN
    CASE Eligible = {} /\ Contains(outcomes, "IncompatibleVersion") -> "IncompatibleVersion"
      [] Eligible = {} /\ ~Contains(outcomes, "IncompatibleVersion") -> "NotFound"
      [] Eligible # {} /\ Cardinality(wanted) = 1 -> found[CHOOSE n \in wanted : TRUE]
      [] OTHER -> "MalformedRecord"

Select ==
    /\ phase = "verify" /\ Len(outcomes) = Len(found)
    /\ phase' = "done"
    /\ \E preferred \in Preferences :
          answer' = [preferred |-> preferred, got |-> SelectService(preferred)]
    /\ UNCHANGED <<left, heard, found, outcomes>>

Discovering ==
    \/ \E s \in Services : Resolved(s)
    \/ Elapse \/ Disconnect \/ CloseWindow \/ Verify \/ Select

-----------------------------------------------------------------------------
DiscoveryTypeOK ==
    /\ heard \subseteq Services
    /\ phase \in {"off", "browse", "verify", "done", "error"}
    /\ left \in 0..WINDOW
    /\ found \in Seq(Services)
    /\ outcomes \in Seq({"Verified", "IncompatibleVersion", "Rejected"})
    /\ Len(outcomes) <= Len(found)
    /\ answer.preferred \in Preferences /\ answer.got \in Services \cup Refusals \cup {"none"}

(* A service is selected only if it is Paper Guard and compatible and is   *)
(* no guess: no other service that proved to be so fits the preference as  *)
(* well, in whatever order they answered and whatever came and went        *)
(* meanwhile ("never first response wins", docs/architecture.md); and the  *)
(* one service that fits an explicit preference is not refused.            *)
NoGuess ==
    LET proved == {found[n] : n \in Eligible}
        fits == {s \in proved : answer.preferred \in {NoPreference, NameOf[s], HostOf[s]}}
    IN /\ \A s \in proved : s \in PaperGuards /\ ~Incompatible(s)
       /\ answer.got \in Services => fits = {answer.got}
       /\ answer.preferred # NoPreference /\ Cardinality(fits) = 1 => answer.got \in Services

(* Every well-formed answer that arrived in the window is listed once      *)
(* ("Multiple services are always listed", docs/architecture.md), unless   *)
(* an instance of that name on that host is.                               *)
AllListed ==
    /\ \A s \in heard \ Malformed : \E n \in 1..Len(found) :
          <<NameOf[found[n]], HostOf[found[n]]>> = <<NameOf[s], HostOf[s]>>
    /\ \A j, k \in 1..Len(found) : found[j] = found[k] => j = k
    /\ \A n \in 1..Len(found) : found[n] \in heard \ Malformed

(* What is chosen is chosen from all there was to choose from, and is the  *)
(* only one that fits.                                                     *)
ChosenFromAll ==
    /\ phase \in {"verify", "done"} => AllListed
    /\ phase = "done" => NoGuess

(* "No automatic selection without an explicit preferred service."         *)
(* (verify.rs:124; so also docs/architecture.md, "requires an explicit     *)
(* preferred_service").  The code takes a service that is the only one to  *)
(* be verified without any preference.                                     *)
PreferenceRequired ==
    phase = "done" /\ answer.got \in Services => answer.preferred # NoPreference
=============================================================================
