-------------------------------- MODULE Shown --------------------------------
(***************************************************************************)
(* What a staged snapshot promises the legs that price against it: there   *)
(* is none, or there is a whole one, of bytes its sources really held; and *)
(* a whole one is withdrawn before another takes its place.                *)
(***************************************************************************)
CONSTANTS Required, Content
VARIABLES
  shown,   \* the snapshot a leg would accept: what each of its files holds, empty when none
  held     \* what each source has held so far

Init == shown = <<>> /\ held \in [DOMAIN held -> SUBSET Content]

Grows == \A f \in DOMAIN held : held[f] \subseteq held'[f]

\* A snapshot of the sources' own bytes that lacks no required file.
Whole(s) ==
  /\ Required \subseteq DOMAIN s
  /\ \A f \in DOMAIN s : s[f] \in held'[f]

Show     == shown = <<>> /\ shown' # <<>> /\ Whole(shown')
Withdraw == shown # <<>> /\ shown' = <<>>

Next == (Show \/ Withdraw \/ UNCHANGED shown) /\ Grows

Spec == Init /\ [][Next]_<<shown, held>>
=============================================================================
