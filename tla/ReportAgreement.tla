--------------------------- MODULE ReportAgreement ---------------------------
(***************************************************************************)
(* What the oracles of one epoch promise together: there is one report for *)
(* a round, most of them observed it, some that are not faulty signed it   *)
(* and saw it, and every instance of an oracle hands over the reports of   *)
(* later and later rounds. There is no leader here, there are no timers,   *)
(* phases or messages: what an oracle does is seen by everyone at once.    *)
(***************************************************************************)
EXTENDS Integers, Sequences, FiniteSets

CONSTANT Oracles

VARIABLES
  made,    \* the reports: each has a round and observations
  signed,  \* <<i, p>>: oracle i signed report p
  echoed,  \* <<i, p>>: oracle i told the others that p is attested
  life,    \* life[i]: how often i started again
  handed   \* handed[i]: what i handed over in which life, in order

vars == <<made, signed, echoed, life, handed>>

F == (Cardinality(Oracles) - 1) \div 3

Observers(p) == {o.oracle : o \in p.observations}

Signers(p) == {s[1] : s \in {t \in signed : t[2] = p}}

Echoers(p) == {e[1] : e \in {t \in echoed : t[2] = p}}

\* The oracles that are not faulty among 2f + 1 are a majority of those.
Observed(p) ==
  /\ Cardinality(Observers(p)) > 2 * F
  /\ \A o \in p.observations : o.round = p.round

\* Some oracle of every set of f + 1 is not faulty.
Attested(p) == p \in made /\ Cardinality(Signers(p)) > F

Init ==
  /\ made = {}
  /\ signed = {}
  /\ echoed = {}
  /\ life = [i \in Oracles |-> 0]
  /\ handed = [i \in Oracles |-> <<>>]

\* The report of a round that has none.
Make ==
  /\ \E p \in made' :
       /\ made' = made \cup {p}
       /\ \A q \in made : q.round # p.round
       /\ Observed(p)
  /\ UNCHANGED <<signed, echoed, life, handed>>

Sign(i) ==
  /\ UNCHANGED <<made, echoed, life, handed>>
  /\ \E p \in made : signed' = signed \cup {<<i, p>>}

Echo(i, p) == echoed' = echoed \cup {<<i, p>>}

\* More than f oracles know of p, and i handed over nothing of p's round, nor
\* of a later one, since it started.
HandOver(i, p) ==
  /\ Cardinality(Echoers(p)') > F
  /\ \A k \in DOMAIN handed[i] :
       handed[i][k].life = life[i] => handed[i][k].report.round < p.round
  /\ handed' = [handed EXCEPT ![i] = Append(@, [report |-> p, life |-> life[i]])]

\* i learns that p is attested.
Learn(i) ==
  /\ \E p \in made :
       /\ Attested(p)
       /\ Echo(i, p) \/ UNCHANGED echoed
       /\ HandOver(i, p) \/ UNCHANGED handed
  /\ UNCHANGED <<made, signed, life>>

StartAgain(i) ==
  /\ life' = [life EXCEPT ![i] = @ + 1]
  /\ UNCHANGED <<made, signed, echoed, handed>>

Next ==
  \/ Make
  \/ \E i \in Oracles : Sign(i)
  \/ \E i \in Oracles : Learn(i)
  \/ \E i \in Oracles : StartAgain(i)

Spec == Init /\ [][Next]_vars
=============================================================================
