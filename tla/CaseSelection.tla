---------------------------- MODULE CaseSelection ----------------------------
(***************************************************************************)
(* Which cases of the case pack a step of the harness works on             *)
(* (SelectSentinelCases, SelectScreenCases, SelectCompareCases and         *)
(* FragilityPicks in internal/harness).  Families are listed in the order  *)
(* of their keys and so are the cases of each; a chosen case is named by   *)
(* the places of the two, and for the judge of a bundle.                   *)
(***************************************************************************)
EXTENDS Naturals, SequencesExt

\* A case pack is a sequence of families: [split, tags, seats, planted, bundles],
\* where bundles has the number of saved bundles of each case.

CONSTANTS
  SentinelCount, ScreenCases \* harness_sentinel_count, harness_screen_cases

Smaller(m, n) == IF m < n THEN m ELSE n
Larger(m, n) == IF m < n THEN n ELSE m

First(s, n) == SubSeq(s, 1, Smaller(n, Len(s)))

\* The items from offset on, then those before it.
Rotate(s, offset) ==
  LET o == offset % Len(s)
  IN [i \in DOMAIN s |-> s[IF i <= Len(s) - o THEN o + i ELSE i - (Len(s) - o)]]

Places(s) == [i \in DOMAIN s |-> i]

\* What is in s and in T, in the order of s.
Only(s, T) == FlattenSeq([i \in DOMAIN s |-> IF s[i] \in T THEN <<s[i]>> ELSE <<>>])

\* The families of a pack with a property, in order.
Having(pack, Has(_)) == SelectSeq(Places(pack), LAMBDA i : Has(pack[i]))

(***************************************************************************)
(* Sentinel: one safety case, one control case, hard ones, then any.       *)
(***************************************************************************)

SentinelTagged(pack, tag) == {i \in DOMAIN pack : {"sentinel", tag} \subseteq pack[i].tags}

SentinelFamilies(pack, tag) == Only(Places(pack), SentinelTagged(pack, tag))

ControlPick(safety, controls) ==
  IF controls[1] = safety /\ Len(controls) > 1 THEN controls[2] ELSE controls[1]

\* Families, with repetition when there are fewer than there are picks.
SentinelPicks(pack, week) ==
  LET all == SentinelFamilies(pack, "sentinel")
      need == Larger(2, SentinelCount)
      safety == Rotate(SentinelFamilies(pack, "safety"), week)[1]
      control == ControlPick(safety, Rotate(SentinelFamilies(pack, "control"), week))
      hard == Only(Rotate(SentinelFamilies(pack, "hard"), week), DOMAIN pack \ {safety, control})
      some == <<safety, control>> \o First(hard, need - 2)
  IN some \o [i \in 1..(need - Len(some)) |-> Rotate(all, week + Len(some) + i - 1)[1]]

\* Empty where the code returns an error.
SelectSentinelCases(pack, week) ==
  IF <<>> \in {SentinelFamilies(pack, "safety"), SentinelFamilies(pack, "control")} THEN <<>>
  ELSE LET picks == SentinelPicks(pack, week) IN
       IF \E i \in DOMAIN picks : pack[picks[i]].bundles = <<>> THEN <<>>
       ELSE [i \in DOMAIN picks |->
              [family |-> picks[i], case |-> Rotate(Places(pack[picks[i]].bundles), week + i - 1)[1]]]

(***************************************************************************)
(* Screening and comparing.                                                *)
(***************************************************************************)

\* The cases of the families in turn.
CasesOf(pack, families) ==
  FlattenSeq([i \in DOMAIN families |->
    [k \in DOMAIN pack[families[i]].bundles |-> [family |-> families[i], case |-> k]]])

\* Priority families first; at least one case is taken whatever the limit.
SelectScreenCases(pack, seat) ==
  LET relevant(f) == f.split = "development" /\ seat \in f.seats
      ordered == Having(pack, LAMBDA f : relevant(f) /\ "priority" \in f.tags)
                 \o Having(pack, LAMBDA f : relevant(f) /\ "priority" \notin f.tags)
  IN First(CasesOf(pack, ordered), Larger(1, ScreenCases))

\* All cases of the selection families; for the judge each case as often as it
\* has bundles.
SelectCompareCases(pack, seat) ==
  LET cases == CasesOf(pack, Having(pack, LAMBDA f : f.split = "selection"))
      bundles(c) == pack[c.family].bundles[c.case]
  IN IF seat # "judge" THEN cases
     ELSE FlattenSeq([i \in DOMAIN cases |->
            [b \in 1..bundles(cases[i]) |-> cases[i] @@ [bundle |-> b]]])

\* The cases for the fragility check: those tagged hardest, else those the
\* incumbent did worst on; Compare gives the same mean for all of them.
FragilityPicks(hardest, incMeans) ==
  LET tagged == SelectSeq(Places(hardest), LAMBDA i : hardest[i])
      worse(i, k) == incMeans[i] < incMeans[k] \/ (incMeans[i] = incMeans[k] /\ i < k)
  IN First(IF tagged # <<>> THEN tagged ELSE SortSeq(Places(hardest), worse), 2)

=============================================================================
