---------------------------- MODULE EpochAgreement ----------------------------
(***************************************************************************)
(* What the pacemakers of one aggregator promise together: a network-wide  *)
(* succession of epochs. Nobody starts an epoch alone, nobody skips one,   *)
(* and an oracle that restarts resumes at an epoch that was agreed on.     *)
(* There are no messages, timers, maps or sort orders here: what an oracle *)
(* asked for is seen by everyone at once.                                  *)
(***************************************************************************)
EXTENDS Integers, Sequences, FiniteSets

CONSTANTS
  Oracles,  \* every oracle that is ever in the ledger
  Ledgers,  \* the values the ledger may take
  Epochs,   \* the epochs, a set of numbers
  First     \* the epoch in which the system boots

VARIABLES
  epoch,    \* epoch[i]: the epoch oracle i is in
  asked,    \* asked[i]: the epochs i ever asked for
  began,    \* <<i, v>>: i asked for v of its own accord
  entered,  \* the epochs some oracle was ever in
  chain     \* the epoch in which an oracle resumes

vars == <<epoch, asked, began, entered, chain>>

F(l) == (Len(l) - 1) \div 3

\* The oracles that asked for v or a later epoch.
Askers(v) == {j \in Oracles : \E w \in asked[j] : w >= v}

\* Those that did so of their own accord.
Initiators(v) == {j \in Oracles : \E w \in Epochs : w >= v /\ <<j, w>> \in began}

\* Some oracle of every set of f + 1 is not faulty.
Begun(v) == \E l \in Ledgers : Cardinality(Initiators(v)) > F(l)

\* The oracles that are not faulty among 2f + 1 are a majority of those.
Agreed(v) == \E l \in Ledgers : Cardinality(Askers(v)) > 2 * F(l)

Init ==
  /\ epoch = [i \in Oracles |-> First]
  /\ asked = [i \in Oracles |-> {}]
  /\ began = {}
  /\ entered = {First}
  /\ chain = First

\* i asks for an epoch that is at most one above an entered one.
Begin(i) ==
  \E v \in Epochs :
    /\ \E e \in entered : v <= e + 1
    /\ asked' = [asked EXCEPT ![i] = @ \cup {v}]
    /\ began' = began \cup {<<i, v>>}
    /\ UNCHANGED <<epoch, entered, chain>>

\* i joins those who asked for v, if enough oracles began it.
Join(i) ==
  \/ asked' = asked
  \/ \E v \in Epochs :
       /\ Begun(v)
       /\ \E j \in Oracles : v \in asked[j]
       /\ asked' = [asked EXCEPT ![i] = @ \cup {v}]

\* i goes on to a later epoch that is agreed on.
Enter(i) ==
  \/ UNCHANGED <<epoch, entered>>
  \/ \E e \in Epochs :
       /\ e > epoch[i]
       /\ Begun(e) /\ Agreed(e)
       /\ epoch' = [epoch EXCEPT ![i] = e]
       /\ entered' = entered \cup {e}

\* i learns what the others asked for.
Learn(i) == Join(i) /\ Enter(i) /\ UNCHANGED <<began, chain>>

Resume(i) ==
  /\ epoch' = [epoch EXCEPT ![i] = chain]
  /\ UNCHANGED <<asked, began, entered, chain>>

Commit ==
  /\ \E e \in entered : e > chain /\ chain' = e
  /\ UNCHANGED <<epoch, asked, began, entered>>

Next ==
  \/ \E i \in Oracles : Begin(i)
  \/ \E i \in Oracles : Learn(i)
  \/ \E i \in Oracles : Resume(i)
  \/ Commit

Spec == Init /\ [][Next]_vars
=============================================================================
