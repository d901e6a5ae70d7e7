------------------------------ MODULE SyncLedger ------------------------------
(***************************************************************************)
(* The relay's book of world digests (net-server relay/game/sync-ledger),  *)
(* as operators on its state:                                              *)
(*                                                                         *)
(*   pending     reports [tick, token, digest] held for a later verdict    *)
(*   references  [tick, digest] each settled tick was decided on           *)
(*                                                                         *)
(* A digest is one value: which domains differ is left out.  Everyone here *)
(* is a player.                                                            *)
(***************************************************************************)
EXTENDS Integers, FiniteSets, SequencesExt

EmptyLedger == [pending |-> {}, references |-> {}]

Settled(l, tick) == \E ref \in l.references : ref.tick = tick

(* A verdict: the tick, and the tokens whose digest is not the reference.  *)
Verdict(tick, reports, digest) ==
  [tick |-> tick, digest |-> digest, out |-> {r.token : r \in {q \in reports : q.digest # digest}}]

(* Mutant: a tick the others already settled holds the late report.        *)
ReportHeld(l, r) ==
  [ledger |-> [l EXCEPT !.pending = {q \in @ : q.tick # r.tick \/ q.token # r.token} \cup {r}],
   verdicts |-> <<>>]

(* A report on a settled tick is judged at once, any other is held, in     *)
(* place of what its client said of that tick before.                      *)
Report(l, r) ==
  IF Settled(l, r.tick)
  THEN LET ref == CHOOSE q \in l.references : q.tick = r.tick
       IN  [ledger |-> l,
            verdicts |-> IF ref.digest = r.digest THEN <<>> ELSE <<Verdict(r.tick, {r}, ref.digest)>>]
  ELSE [ledger |-> [l EXCEPT !.pending = {q \in @ : q.tick # r.tick \/ q.token # r.token} \cup {r}],
        verdicts |-> <<>>]

(* seniority is the clients, the longest connected first.                  *)
Rank(token, seniority) == CHOOSE i \in DOMAIN seniority : seniority[i] = token
Eldest(reports, seniority) ==
  CHOOSE r \in reports : \A q \in reports : Rank(r.token, seniority) <= Rank(q.token, seniority)

(* Mutant: the longest connected client is right.                          *)
JudgeEldest(tick, reports, seniority) == Verdict(tick, reports, Eldest(reports, seniority).digest)

(* The majority digest, a tie going to the longest connected client.       *)
Judge(tick, reports, seniority) ==
  LET Group(digest) == {r \in reports : r.digest = digest}
      Before(d, e) ==
        \/ Cardinality(Group(d)) > Cardinality(Group(e))
        \/ /\ Cardinality(Group(d)) = Cardinality(Group(e))
           /\ Rank(Eldest(Group(d), seniority).token, seniority)
                <= Rank(Eldest(Group(e), seniority).token, seniority)
      digests == {r.digest : r \in reports}
  IN  Verdict(tick, reports, CHOOSE d \in digests : \A e \in digests : Before(d, e))

(* One held tick: judged from the reports of those still eligible.         *)
SettleTick(acc, tick, seniority) ==
  LET held == {r \in acc.ledger.pending : r.tick = tick}
      counted == {r \in held : r.token \in acc.eligible}
      verdict == Judge(tick, counted, seniority)
      rest == [acc.ledger EXCEPT !.pending = @ \ held]
  IN  IF counted = {} THEN [acc EXCEPT !.ledger = rest]
      ELSE [ledger |-> [rest EXCEPT !.references = @ \cup {[tick |-> tick, digest |-> verdict.digest]}],
            eligible |-> acc.eligible \ verdict.out,
            verdicts |-> IF verdict.out = {} THEN acc.verdicts ELSE Append(acc.verdicts, verdict)]

(* Every held tick up to passed, in order, from the reports of synced.     *)
Settle(l, passed, synced, seniority) ==
  FoldLeft(LAMBDA acc, tick : SettleTick(acc, tick, seniority),
           [ledger |-> l, eligible |-> synced, verdicts |-> <<>>],
           [tick \in 1..passed |-> tick])

Forget(l, token) == [l EXCEPT !.pending = {r \in @ : r.token # token}]

PruneBefore(l, tick) == [l EXCEPT !.references = {ref \in @ : ref.tick >= tick}]

===============================================================================
