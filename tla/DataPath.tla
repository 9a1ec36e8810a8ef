------------------------------- MODULE DataPath -------------------------------
(***************************************************************************)
(* The values of one round of report generation: the answers of the data   *)
(* fetchers, the observation an oracle makes of them, the median of a      *)
(* report, whether it is due, its packing, which is signed and verified,   *)
(* and the slot in which an oracle transmits it (libs/oracle/src/lib/data, *)
(* the helpers of reportgen and transmit, contract.service.ts). Which      *)
(* message is handled when is the subject of ReportGen; here a round goes  *)
(* as far as its values let it, between oracles that agree on the leader   *)
(* but may have read different ledgers.                                    *)
(*                                                                         *)
(* A price is a number of halves of the unit of the aggregator's decimals, *)
(* so that rounding shows. An exception that leaves a handler is an        *)
(* unhandled rejection and ends the process.                               *)
(***************************************************************************)
EXTENDS Integers, Sequences, SequencesExt, FiniteSetsExt

CONSTANTS
  Oracles,      \* every oracle of some ledger
  Leader,       \* the leader of the epoch
  LedgersOf,    \* the ledgers the oracles may have read
  Faulty,       \* the oracles to which the price APIs may answer anything
  GoodAnswers,  \* the prices the APIs answer to the others, if they do
  BadAnswers,   \* what they may answer to a faulty oracle besides
  LastData,     \* medians the last reports may have had, in halves
  Draws,        \* what seedrandom may draw for a ledger
  Absent,       \* oracles that do not take part
  Alpha         \* alphaPerThousand

\* An API answers without the price that was asked for; what a BigNumber makes
\* of it is not a number.
Undefined == -1
NaN == Undefined

\* The call of an API failed; the fetcher threw.
Null == -2

\* No value yet.
None == -3

ASSUME ValuesAssumption ==
  /\ GoodAnswers \subseteq Nat /\ GoodAnswers # {}
  /\ BadAnswers \subseteq Nat \cup {Undefined}
  /\ LastData \subseteq Nat /\ Alpha \in Nat

ASSUME OraclesAssumption ==
  /\ IsFiniteSet(Oracles)
  /\ Leader \in Oracles /\ Faulty \subseteq Oracles /\ Absent \subseteq Oracles
  /\ LedgersOf \subseteq [Oracles -> Seq(Oracles) \ {<<>>}]

\* A draw has a number for every place of a ledger: the place k, counted from 1,
\* is exchanged with one of the first k.
ASSUME DrawsAssumption ==
  \A d \in Draws :
    /\ d \in Seq(Nat) /\ \A k \in DOMAIN d : d[k] \in 1..k
    /\ \A l \in LedgersOf, i \in Oracles : Len(l[i]) <= Len(d)

VARIABLES
  ledger,       \* ledger[i]: oracleLedger of the instance of i, in its order
  up,           \* up[i]: the process of i runs
  chain,        \* data of the last report on the blockchain, when the leader reports
  elapsed,      \* that report is older than the heartbeat
  cached,       \* median of the report transmitted last, when the leader is done
  fetched,      \* history: who fetched last, and the answers of its fetchers but Null
  observation,  \* observation[i]: what i sent to the leader
  report,       \* the observations in the report of the leader, if there is one
  signature,    \* signature[i]: what i answered to reportReq
  attesting,    \* _report of the leader: who signed
  draws,        \* the numbers drawn by seedrandom, once there is a final message
  handled       \* what the last oracle made of the final message

vars == <<ledger, up, chain, elapsed, cached, fetched, observation, report, signature,
          attesting, draws, handled>>

\* What an API may answer to oracle i.
Answers(i) == GoodAnswers \cup {Null} \cup IF i \in Faulty THEN BadAnswers ELSE {}

\* getData of the fetchers. Messari throws when there is no price.
Messari(i) == Answers(i) \ {Undefined}

\* Coingecko throws for a coin it has no id of, and hands on what is undefined.
Coingecko(i) == Answers(i)

\* Alphavantage takes the mean of two prices, and throws when one is missing.
Alphavantage(i) ==
  LET prices == Answers(i) \ {Undefined, Null}
  IN  {Null} \cup {(high + low) \div 2 : high, low \in prices}

\* The answers of _dataFetchers.
AllData(i) == Messari(i) \X Coingecko(i) \X Alphavantage(i)

Members(l) == ToSet(l)

F(l) == (Len(l) - 1) \div 3

\* Mutant: 2f observations are enough.
QuorumOf2F(l) == 2 * F(l)

Quorum(l) == 2 * F(l) + 1

Init ==
  /\ ledger \in LedgersOf
  /\ up = [i \in Oracles |-> i \notin Absent]
  /\ chain = 0
  /\ elapsed = FALSE
  /\ cached = 0
  /\ fetched = <<>>
  /\ observation = [i \in Oracles |-> None]
  /\ report = <<>>
  /\ signature = [i \in Oracles |-> "none"]
  /\ attesting = {}
  /\ draws = <<>>
  /\ handled = <<>>

(***************************************************************************)
(* The observation                                                         *)
(***************************************************************************)

\* sort(): the k-th of the values of f has fewer than k below it, and k or more
\* that are not above it.
Sorted(f) ==
  [k \in 1..Cardinality(DOMAIN f) |->
     CHOOSE v \in Range(f) : /\ Cardinality({j \in DOMAIN f : f[j] < v}) < k
                             /\ Cardinality({j \in DOMAIN f : f[j] <= v}) >= k]

Twice(a, b) == IF NaN \in {a, b} THEN NaN ELSE a + b

\* Twice the median. sort() with a comparator that a NaN makes inconsistent may
\* leave any elements in the middle.
Medians(f) ==
  LET len == Cardinality(DOMAIN f)
      mid == len \div 2
      n == Sorted(f)
  IN  CASE NaN \notin Range(f) -> {IF len % 2 = 1 THEN 2 * n[mid + 1] ELSE n[mid] + n[mid + 1]}
        [] NaN \in Range(f) /\ len % 2 = 1 -> {Twice(a, a) : a \in Range(f)}
        [] OTHER -> {Twice(f[p[1]], f[p[2]]) :
                       p \in {q \in (DOMAIN f) \X (DOMAIN f) : q[1] # q[2]}}

\* decimalPlaces(0) of a number of quarters: a half is rounded up.
Rounded(q) == IF q = NaN THEN NaN ELSE (q + 2) \div 4

\* Mutant: the answers that failed are kept, and new BigNumber(null) is NaN.
NoneFiltered(s) == [k \in DOMAIN s |-> IF s[k] = Null THEN NaN ELSE s[k]]

FilterNotNull(s) == Restrict(s, {k \in DOMAIN s : s[k] # Null})

\* Mutant: null is returned when every fetcher failed.
GetDataOrNull(i) ==
  /\ up[i] /\ observation[i] = None /\ report = <<>>
  /\ \E a \in AllData(i) :
       /\ fetched' = <<i, ToSet(a) \ {Null}>>
       /\ IF DOMAIN FilterNotNull(a) = {}
            THEN observation' = [observation EXCEPT ![i] = Null]
            ELSE \E q \in Medians(FilterNotNull(a)) :
                   observation' = [observation EXCEPT ![i] = Rounded(q)]
  /\ UNCHANGED <<ledger, up, chain, elapsed, cached, report, signature, attesting, draws, handled>>

\* It throws when every fetcher failed.
GetData(i) ==
  /\ up[i] /\ observation[i] = None /\ report = <<>>
  /\ \E a \in AllData(i) :
       /\ fetched' = <<i, ToSet(a) \ {Null}>>
       /\ IF DOMAIN FilterNotNull(a) = {}
            THEN up' = [up EXCEPT ![i] = FALSE] /\ UNCHANGED observation
            ELSE /\ \E q \in Medians(FilterNotNull(a)) :
                      observation' = [observation EXCEPT ![i] = Rounded(q)]
                 /\ UNCHANGED up
  /\ UNCHANGED <<ledger, chain, elapsed, cached, report, signature, attesting, draws, handled>>

(***************************************************************************)
(* The report                                                              *)
(***************************************************************************)

\* The leader takes observations of members of its ledger, as many as arrive.
AssembleReport ==
  /\ up[Leader] /\ report = <<>>
  /\ \E S \in SUBSET {i \in Members(ledger[Leader]) : observation[i] # None} :
       Cardinality(S) >= Quorum(ledger[Leader]) /\ report' = [i \in S |-> observation[i]]
  /\ observation' = [i \in Oracles |-> None]
  /\ fetched' = <<>>
  /\ chain' \in LastData /\ elapsed' \in BOOLEAN
  /\ UNCHANGED <<ledger, up, cached, signature, attesting, draws, handled>>

Observers == DOMAIN report

\* Twice the median of the report.
ReportMedians == Medians(report)

Distance(m, last) == IF m > last THEN m - last ELSE last - m

\* The comparison of the transmit service, with gte. A division by 0 gives
\* Infinity, and 0 / 0 gives NaN, which exceeds nothing.
DeviatesAtLeast(m, last) ==
  /\ m # NaN
  /\ IF last = 0 THEN m # 0 ELSE Distance(m, last) * 1000 >= Alpha * last

\* That of the follower, with gt. Mutant: DeviatesAtLeast, as its comment says.
DeviatesBy(m, last) ==
  /\ m # NaN
  /\ IF last = 0 THEN m # 0 ELSE Distance(m, last) * 1000 > Alpha * last

\* The encoding of a nat throws for what is none.
CannotEncode == \E o \in Observers : report[o] = NaN

Packable(i) == Observers \subseteq Members(ledger[i])

\* A follower signs the report if it is due. An observer it does not know makes
\* the signature empty. Nobody waits for those who sign after the final message.
OnReportReq(i) ==
  /\ up[i] /\ report # <<>> /\ draws = <<>> /\ signature[i] = "none"
  /\ Cardinality(Observers) >= Quorum(ledger[i])
  /\ \E m \in ReportMedians :
       LET due == elapsed \/ DeviatesBy(m, chain) IN
       /\ signature' = [signature EXCEPT ![i] =
            CASE ~due -> "not due"
              [] due /\ ~Packable(i) -> "empty"
              [] due /\ Packable(i) /\ CannotEncode -> "none"
              [] OTHER -> "signed"]
       /\ up' = [up EXCEPT ![i] = ~(due /\ Packable(i) /\ CannotEncode)]
  /\ UNCHANGED <<ledger, chain, elapsed, cached, fetched, observation, report, attesting, draws, handled>>

\* Mutant: the leader stores whatever was sent as a signature.
OnReportUnverified(i) ==
  /\ up[Leader] /\ draws = <<>>
  /\ signature[i] \in {"signed", "empty"}
  /\ i \in Members(ledger[Leader]) \ attesting
  /\ attesting' = attesting \cup {i}
  /\ IF Cardinality(attesting') > F(ledger[Leader])
       THEN draws' \in Draws /\ cached' \in LastData \cup {None}
       ELSE UNCHANGED <<cached, draws>>
  /\ UNCHANGED <<ledger, up, chain, elapsed, fetched, observation, report, signature, handled>>

VerifySignature(s) == s = "signed"

\* The leader stores a valid signature of a member. With more than f of them it
\* broadcasts the attested report. Its round seeds the permutation of everyone:
\* draws[k] is the element that is exchanged with the k-th.
OnReport(i) ==
  /\ up[Leader] /\ draws = <<>>
  /\ signature[i] \in {"signed", "empty"}
  /\ i \in Members(ledger[Leader]) \ attesting
  /\ IF CannotEncode
       THEN up' = [up EXCEPT ![Leader] = FALSE] /\ UNCHANGED <<attesting, cached, draws>>
       ELSE /\ VerifySignature(signature[i])
            /\ attesting' = attesting \cup {i}
            /\ IF Cardinality(attesting') > F(ledger[Leader])
                 THEN draws' \in Draws /\ cached' \in LastData \cup {None}
                 ELSE UNCHANGED <<cached, draws>>
            /\ UNCHANGED up
  /\ UNCHANGED <<ledger, chain, elapsed, fetched, observation, report, signature, handled>>

(***************************************************************************)
(* The final message and its transmission                                  *)
(***************************************************************************)

\* _packReport throws for an observer that the oracle does not know.
OnFinalUnknownObserver(i) ==
  /\ up[i] /\ draws # <<>> /\ ~Packable(i)
  /\ up' = [up EXCEPT ![i] = FALSE]
  /\ UNCHANGED <<ledger, chain, elapsed, cached, fetched, observation, report, signature,
                 attesting, draws, handled>>

VerifyAttestedReport(i) ==
  /\ \A s \in attesting : s \in Members(ledger[i]) /\ VerifySignature(signature[s])
  /\ Cardinality(attesting) > F(ledger[i])

\* Mutant: the last member is copied, not exchanged.
Copied(s, k, j) == [s EXCEPT ![k] = s[j]]

Exchanged(s, k, j) == [s EXCEPT ![k] = s[j], ![j] = s[k]]

\* The Fisher-Yates shuffle of a ledger, from its last element down.
RandomPermutation(l) ==
  LET down[k \in 1..Len(l)] ==
        IF k = Len(l) THEN Exchanged(l, k, draws[k]) ELSE Exchanged(down[k + 1], k, draws[k])
  IN  down[1]

\* findIndex, which is -1 for an oracle that is not in the ledger.
SlotOf(i) ==
  LET found == {k \in DOMAIN ledger[i] : RandomPermutation(ledger[i])[k] = i}
  IN  IF found = {} THEN -1 ELSE Min(found) - 1

\* onTransmit, for a report that is newer than the chain and the cache: it is
\* queued when it deviates from the cached one, or when the chain has caught up
\* with that or there is none.
OnTransmit(i, m) ==
  handled' = IF cached = None \/ DeviatesAtLeast(m, cached)
               THEN [oracle |-> i, verdict |-> "queued", slot |-> SlotOf(i)]
               ELSE [oracle |-> i, verdict |-> "dropped", slot |-> None]

OnFinal(i) ==
  /\ up[i] /\ draws # <<>> /\ Packable(i)
  /\ IF VerifyAttestedReport(i)
       THEN \E m \in ReportMedians : OnTransmit(i, m)
       ELSE handled' = [oracle |-> i, verdict |-> "refused", slot |-> None]
  /\ UNCHANGED <<ledger, up, chain, elapsed, cached, fetched, observation, report, signature,
                 attesting, draws>>

Next ==
  \/ \E i \in Oracles : GetData(i)
  \/ AssembleReport
  \/ \E i \in Oracles : OnReportReq(i)
  \/ \E i \in Oracles : OnReport(i)
  \/ \E i \in Oracles : OnFinalUnknownObserver(i)
  \/ \E i \in Oracles : OnFinal(i)

Spec == Init /\ [][Next]_vars

(***************************************************************************)
(* Properties                                                              *)
(***************************************************************************)

Numbers == Nat \cup {NaN, None}

\* The types of the variables.
TypeOK ==
  /\ ledger \in LedgersOf
  /\ up \in [Oracles -> BOOLEAN]
  /\ chain \in LastData \cup {0} /\ cached \in LastData \cup {0, None} /\ elapsed \in BOOLEAN
  /\ fetched # <<>> => fetched[1] \in Oracles /\ fetched[2] \subseteq Nat \cup {NaN}
  /\ observation \in [Oracles -> Numbers]
  /\ Observers \subseteq Members(ledger[Leader])
  /\ \A i \in Observers : report[i] \in Numbers \ {None}
  /\ signature \in [Oracles -> {"none", "not due", "empty", "signed"}]
  /\ attesting \subseteq Members(ledger[Leader])
  /\ draws \in Seq(Nat)
  /\ handled # <<>> =>
       handled \in [oracle : Oracles, verdict : {"refused", "dropped", "queued"},
                    slot : {None, -1} \cup Nat]

\* What an oracle observes lies between the lowest and the highest answer it
\* got, up to the rounding, whoever failed; it is not a number only if an
\* answer was none.
ObservationInRange ==
  fetched # <<>> /\ observation[fetched[1]] # None =>
    LET o == observation[fetched[1]]
        got == fetched[2]
    IN  \/ NaN \in got
        \/ (\E a \in got : Rounded(2 * a) <= o) /\ (\E a \in got : o <= Rounded(2 * a))

\* With at most f faulty oracles, the median of a report that anybody signed
\* is a number between two observations of oracles that are not faulty.
SignedIsTrusted ==
  \A i \in Oracles :
    signature[i] = "signed" /\ Cardinality(Faulty) <= F(ledger[Leader]) =>
      LET good == {report[o] : o \in Observers \ Faulty}
      IN  \A m \in ReportMedians : 2 * Min(good) <= m /\ m <= 2 * Max(good)

\* Alpha decides, for a rise, a fall and a first price after 0. Before the
\* heartbeat elapses an oracle signs a report only if its median is beyond alpha
\* from that of the last report, and lets it go only if it is not: at exactly alpha
\* it is let go, against the comment of _shouldReport ("a deviation of as least
\* `alphaPerThousand`", reportgen.follower.service.ts:574). The transmit service
\* drops only what is within alpha of what it transmitted last: at exactly alpha
\* it queues. A report that has no number for a median is let go, too.
AlphaDecides ==
  /\ \A i \in Oracles :
       /\ signature[i] = "signed" /\ ~elapsed =>
            \A m \in ReportMedians : Distance(m, chain) * 1000 > Alpha * chain
       /\ signature[i] = "not due" /\ ~CannotEncode =>
            \A m \in ReportMedians : Distance(m, chain) * 1000 <= Alpha * chain
  /\ handled # <<>> =>
       /\ handled.verdict = "queued" /\ cached # None =>
            \A m \in ReportMedians : Distance(m, cached) * 1000 >= Alpha * cached
       /\ handled.verdict = "dropped" =>
            \A m \in ReportMedians : m = cached \/ Distance(m, cached) * 1000 < Alpha * cached

\* What convinced the leader convinces every oracle with the leader's ledger:
\* none of them refuses the final message or dies of it.
FinalConvinces ==
  /\ handled # <<>> => (handled.verdict = "refused" => ledger[handled.oracle] # ledger[Leader])
  /\ draws # <<>> => \A i \in Oracles : ledger[i] = ledger[Leader] => Packable(i)

\* Whoever transmits has a slot among those of its ledger if it is a member, and
\* no other oracle with the same ledger has that slot.
OneOraclePerSlot ==
  handled # <<>> => (handled.verdict = "queued" =>
    LET i == handled.oracle IN
    i \in Members(ledger[i]) =>
      /\ handled.slot \in 0..(Len(ledger[i]) - 1)
      /\ \A j \in Oracles \ {i} : ledger[j] = ledger[i] => SlotOf(j) # handled.slot)
=============================================================================
