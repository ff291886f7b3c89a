-------------------------- MODULE IdempotencyProofs -------------------------
(***************************************************************************)
(* Proofs about the two idempotency stores: the ledger in PostgreSQL       *)
(* (IdempotencyLedger) and the claims of requests in Redis                 *)
(* (IdempotencyRedis), for any keys, requests and bounds.  They share no   *)
(* state.                                                                  *)
(***************************************************************************)
EXTENDS IdempotencyLedger, IdempotencyRedis, TLAPS

-----------------------------------------------------------------------------
(* The idempotency ledger: a claim has one owner, a live claim is ended by *)
(* its owner only, and the ledger implements ReplayOnce.                   *)

Places == {"idle", "answered", "conflict"} \cup Running

Types ==
  /\ row \in [Keys -> RowType]
  /\ stage \in [Requests -> Places]
  /\ id \in [Requests -> Nat] /\ version \in [Requests -> Nat]
  /\ tries \in [Requests -> Nat]
  /\ served \in [Requests -> Requests \cup {None}]
  /\ failures \in Nat

\* A lease belongs to a claim.  A recorded response is that of a request with
\* the fingerprint of the row, and a chat request that recorded one is done.
RowsOK ==
  \A k \in Keys :
    /\ row[k].lease # "none" => row[k].state = "claimed"
    /\ row[k].state = "finalized" =>
         /\ row[k].resp \in Requests
         /\ row[k].hash = BodyHash[row[k].resp]
         /\ row[k].resp \in Chat => stage[row[k].resp] = "answered"

\* No handler holds a token its row has not reached: the token that a claim
\* creates is new.
TokensOK ==
  \A q \in Requests :
    /\ id[q] <= row[KeyOf[q]].id
    /\ id[q] = row[KeyOf[q]].id /\ row[KeyOf[q]].state # "absent"
         => version[q] <= row[KeyOf[q]].version

\* The owner of a claim is a request with the fingerprint of the row.
HashOK ==
  \A q \in Requests :
    stage[q] \in Running /\ Owns(q, row[KeyOf[q]]) => row[KeyOf[q]].hash = BodyHash[q]

\* Who has not replied or been answered has no answer.
AnswersOK ==
  \A q \in Requests : stage[q] \in {"idle", "owned", "executed"} => served[q] = None

IInv == Types /\ RowsOK /\ TokensOK /\ OneOwner /\ HashOK /\ AnswersOK

LEMMA InitInv == ASSUME LedgerAssumption PROVE LedgerInit => IInv
<1> SUFFICES ASSUME LedgerInit PROVE IInv
  OBVIOUS
<1> USE DEF LedgerAssumption, LedgerInit
<1>1. Types
  BY Zenon DEF Types, RowType, Places
<1>2. RowsOK /\ TokensOK /\ AnswersOK
  BY DEF RowsOK, TokensOK, AnswersOK
<1>3. OneOwner /\ HashOK
  BY Zenon DEF OneOwner, HashOK, Running
<1> QED BY <1>1, <1>2, <1>3, Zenon DEF IInv

\* What a step of request q may do besides changing the row of its key.
Local(q, to, a) ==
  /\ stage' = [stage EXCEPT ![q] = to] /\ to \in Places
  /\ stage[q] # "answered"
  /\ served' = [served EXCEPT ![q] = a] /\ a \in Requests \cup {None}
  /\ to \in {"idle", "owned", "executed"} => a = None
  /\ tries' \in [Requests -> Nat] /\ failures' \in Nat

LEMMA LocalStep ==
  ASSUME LedgerAssumption, IInv, NEW q \in Requests, NEW to, NEW a, Local(q, to, a)
  PROVE  AnswersOK'
BY Zenon DEF LedgerAssumption, IInv, Types, AnswersOK, Local

\* A step that neither takes a claim nor changes a row.
LEMMA QuietStep ==
  ASSUME LedgerAssumption, IInv, NEW q \in Requests, NEW to, NEW a, Local(q, to, a),
         UNCHANGED <<row, id, version>>,
         to \in Running => stage[q] \in Running
  PROVE  IInv'
<1> USE DEF Local
<1>1. Types'
  BY Zenon DEF IInv, Types
<1>2. RowsOK'
  BY Zenon DEF IInv, Types, RowsOK, RowType
<1>3. TokensOK'
  BY Zenon DEF IInv, TokensOK
<1>4. \A p \in Requests : stage'[p] \in Running => stage[p] \in Running
  BY Zenon DEF IInv, Types
<1>5. OneOwner' /\ HashOK'
  BY <1>4, Zenon DEF IInv, OneOwner, HashOK, Owns
<1> QED BY <1>1, <1>2, <1>3, <1>5, LocalStep, Zenon DEF IInv
-----------------------------------------------------------------------------
(* The three ways a row changes                                            *)

\* A claim is taken.  The token it creates is above every token held.
LEMMA TakeStep ==
  ASSUME LedgerAssumption, IInv, NEW q \in Requests, NEW to, Local(q, to, served[q]),
         row[KeyOf[q]].state = "absent"
           \/ (row[KeyOf[q]].state = "claimed" /\ row[KeyOf[q]].hash = BodyHash[q]),
         row' = [row EXCEPT ![KeyOf[q]] = Taken(q, row[KeyOf[q]])],
         \/ /\ to = "owned"
            /\ id' = [id EXCEPT ![q] = Taken(q, row[KeyOf[q]]).id]
            /\ version' = [version EXCEPT ![q] = Taken(q, row[KeyOf[q]]).version]
         \/ to \notin Running /\ UNCHANGED <<id, version>>
  PROVE  IInv'
<1> DEFINE k == KeyOf[q]
           t == Taken(q, row[k])
<1>1. /\ k \in Keys /\ row[k] \in RowType /\ row'[k] = t
      /\ \A l \in Keys \ {k} : row'[l] = row[l]
      /\ \A p \in Requests : KeyOf[p] \in Keys
  BY Zenon DEF LedgerAssumption, IInv, Types
<1>2. /\ t \in RowType /\ t.state = "claimed" /\ t.hash = BodyHash[q] /\ t.resp = None
      /\ t.lease = "live"
  BY <1>1 DEF Taken, Inserted, Reclaimed, RowType, Hashes
<1>3. \/ t.id > row[k].id
      \/ row[k].state = "claimed" /\ t.id = row[k].id /\ t.version > row[k].version
  BY <1>1 DEF Taken, Inserted, Reclaimed, RowType
<1>4. \A p \in Requests : KeyOf[p] = k =>
        id[p] < t.id \/ (id[p] = t.id /\ version[p] < t.version)
  BY <1>1, <1>2, <1>3 DEF IInv, Types, TokensOK, RowType
<1> HIDE DEF k, t
<1>5. /\ \A p \in Requests \ {q} : id'[p] = id[p] /\ version'[p] = version[p] /\ stage'[p] = stage[p]
      /\ \/ stage'[q] = "owned" /\ id'[q] = t.id /\ version'[q] = t.version
         \/ stage'[q] \notin Running /\ id'[q] = id[q] /\ version'[q] = version[q]
  BY Zenon DEF IInv, Types, Local, k, t
<1>6. Types'
  BY <1>1, <1>2, Zenon DEF IInv, Types, Local, RowType, k, t
<1>7. RowsOK'
  <2> SUFFICES ASSUME NEW l \in Keys
      PROVE  /\ row'[l].lease # "none" => row'[l].state = "claimed"
             /\ row'[l].state = "finalized" =>
                  /\ row'[l].resp \in Requests
                  /\ row'[l].hash = BodyHash[row'[l].resp]
                  /\ row'[l].resp \in Chat => stage'[row'[l].resp] = "answered"
    BY Zenon DEF RowsOK
  <2>1. CASE l = k
    BY <2>1, <1>1, <1>2, Zenon
  <2>2. CASE l # k
    BY <2>2, <1>1, Zenon DEF IInv, Types, RowsOK, Local
  <2> QED BY <2>1, <2>2, Zenon
<1>8. TokensOK'
  <2> SUFFICES ASSUME NEW p \in Requests
      PROVE  /\ id'[p] <= row'[KeyOf[p]].id
             /\ id'[p] = row'[KeyOf[p]].id /\ row'[KeyOf[p]].state # "absent"
                  => version'[p] <= row'[KeyOf[p]].version
    BY Zenon DEF TokensOK
  <2>1. CASE KeyOf[p] = k
    BY <2>1, <1>1, <1>2, <1>4, <1>5 DEF IInv, Types, RowType, k
  <2>2. CASE KeyOf[p] # k
    BY <2>2, <1>1, <1>5 DEF IInv, TokensOK, k
  <2> QED BY <2>1, <2>2, Zenon
<1>9. \A p \in Requests :
        stage'[p] \in Running /\ Owns(p, row[KeyOf[p]])' =>
          p = q \/ (KeyOf[p] # k /\ stage[p] \in Running /\ Owns(p, row[KeyOf[p]]))
  BY <1>1, <1>2, <1>4, <1>5 DEF IInv, Types, RowType, Owns
<1>10. OneOwner'
  BY <1>9, Zenon DEF IInv, OneOwner, k
<1>11. HashOK'
  BY <1>1, <1>2, <1>9, Zenon DEF IInv, HashOK, k
<1> QED BY <1>6, <1>7, <1>8, <1>10, <1>11, LocalStep, Zenon DEF IInv

\* The owner ends its claim: the row becomes r, which nobody owns.
LEMMA EndStep ==
  ASSUME LedgerAssumption, IInv, NEW q \in Requests, NEW to, NEW a, Local(q, to, a),
         stage[q] \in Running, Owns(q, row[KeyOf[q]]), UNCHANGED <<id, version>>,
         NEW r, row' = [row EXCEPT ![KeyOf[q]] = r],
         \/ r = Deleted(row[KeyOf[q]])
         \/ r = Finalized(q, row[KeyOf[q]]) /\ (q \in Chat => to = "answered")
  PROVE  IInv'
<1> DEFINE k == KeyOf[q]
<1>1. /\ k \in Keys /\ row[k] \in RowType /\ row'[k] = r
      /\ \A l \in Keys \ {k} : row'[l] = row[l]
      /\ \A p \in Requests : KeyOf[p] \in Keys
  BY Zenon DEF LedgerAssumption, IInv, Types
<1>2. /\ r \in RowType /\ r.state # "claimed" /\ r.lease = "none"
      /\ r.id = row[k].id
      /\ r.state # "absent" => r.version > row[k].version
  BY <1>1 DEF Deleted, Finalized, RowType, LedgerAssumption
<1>3. r.state = "finalized" => /\ r.resp = q /\ r.hash = BodyHash[q]
                               /\ q \in Chat => to = "answered"
  BY <1>1 DEF Deleted, Finalized, IInv, HashOK
<1>4. row[k].state = "claimed"
  BY Zenon DEF Owns
<1> HIDE DEF k
<1>5. Types'
  BY <1>1, <1>2, Zenon DEF IInv, Types, Local, k
<1>6. RowsOK'
  <2> SUFFICES ASSUME NEW l \in Keys
      PROVE  /\ row'[l].lease # "none" => row'[l].state = "claimed"
             /\ row'[l].state = "finalized" =>
                  /\ row'[l].resp \in Requests
                  /\ row'[l].hash = BodyHash[row'[l].resp]
                  /\ row'[l].resp \in Chat => stage'[row'[l].resp] = "answered"
    BY Zenon DEF RowsOK
  <2>1. CASE l = k
    BY <2>1, <1>1, <1>2, <1>3 DEF IInv, Types, Local
  <2>2. CASE l # k
    BY <2>2, <1>1 DEF IInv, Types, RowsOK, Local
  <2> QED BY <2>1, <2>2, Zenon
<1>7. TokensOK'
  <2> SUFFICES ASSUME NEW p \in Requests
      PROVE  /\ id'[p] <= row'[KeyOf[p]].id
             /\ id'[p] = row'[KeyOf[p]].id /\ row'[KeyOf[p]].state # "absent"
                  => version'[p] <= row'[KeyOf[p]].version
    BY Zenon DEF TokensOK
  <2>1. CASE KeyOf[p] = k
    BY <2>1, <1>1, <1>2, <1>4 DEF IInv, Types, RowType, TokensOK
  <2>2. CASE KeyOf[p] # k
    BY <2>2, <1>1, Zenon DEF IInv, TokensOK
  <2> QED BY <2>1, <2>2, Zenon
<1>8. \A p \in Requests :
        stage'[p] \in Running /\ Owns(p, row[KeyOf[p]])' =>
          KeyOf[p] # k /\ stage[p] \in Running /\ Owns(p, row[KeyOf[p]])
  BY <1>1, <1>2, Zenon DEF IInv, Types, Owns, Local, k
<1>9. OneOwner'
  BY <1>8, Zenon DEF IInv, OneOwner
<1>10. HashOK'
  BY <1>1, <1>8, Zenon DEF IInv, HashOK
<1> QED BY <1>5, <1>6, <1>7, <1>9, <1>10, LocalStep, Zenon DEF IInv

LEMMA LapseInv ==
  ASSUME LedgerAssumption, IInv, NEW k \in Keys, Lapse(k)
  PROVE  IInv'
<1>1. /\ row[k] \in RowType /\ row[k].state = "claimed"
      /\ row'[k] = [row[k] EXCEPT !.lease = "lapsed"]
      /\ \A l \in Keys \ {k} : row'[l] = row[l]
      /\ row' \in [Keys -> RowType]
      /\ UNCHANGED callVars
  BY DEF Lapse, IInv, Types, RowsOK, RowType
<1>2. \A l \in Keys :
        /\ row'[l].state = row[l].state /\ row'[l].id = row[l].id
        /\ row'[l].version = row[l].version /\ row'[l].hash = row[l].hash
        /\ row'[l].resp = row[l].resp
        /\ row'[l].lease # "none" => row[l].lease # "none"
  <2> SUFFICES ASSUME NEW l \in Keys
      PROVE  /\ row'[l].state = row[l].state /\ row'[l].id = row[l].id
             /\ row'[l].version = row[l].version /\ row'[l].hash = row[l].hash
             /\ row'[l].resp = row[l].resp
             /\ row'[l].lease # "none" => row[l].lease # "none"
    OBVIOUS
  <2>1. row[k].lease # "none"
    BY Zenon DEF Lapse
  <2>2. CASE l = k
    BY <2>1, <2>2, <1>1, Zenon DEF RowType
  <2>3. CASE l # k
    BY <2>3, <1>1, Zenon
  <2> QED BY <2>2, <2>3, Zenon
<1>3. \A q \in Requests : KeyOf[q] \in Keys
  BY Zenon DEF LedgerAssumption
<1>4. Types'
  BY <1>1 DEF IInv, Types, callVars, Lapse, Charge
<1>5. RowsOK'
  BY <1>1, <1>2 DEF IInv, RowsOK, callVars
<1>6. TokensOK' /\ AnswersOK'
  BY <1>1, <1>2, <1>3, Zenon DEF IInv, TokensOK, AnswersOK, callVars
<1>7. OneOwner' /\ HashOK'
  BY <1>1, <1>2, <1>3 DEF IInv, OneOwner, HashOK, Owns, callVars
<1> QED BY <1>4, <1>5, <1>6, <1>7, Zenon DEF IInv
-----------------------------------------------------------------------------
(* The steps of a request                                                  *)

LEMMA OutcomeOwned ==
  ASSUME LedgerAssumption, IInv, NEW q \in Requests, NEW live \in BOOLEAN,
         Outcome(q, row[KeyOf[q]], live) = "owned"
  PROVE  /\ \/ row[KeyOf[q]].state = "absent"
            \/ row[KeyOf[q]].state = "claimed" /\ row[KeyOf[q]].hash = BodyHash[q]
         /\ row[KeyOf[q]].lease # "live"
<1>1. KeyOf[q] \in Keys /\ row[KeyOf[q]] \in RowType
  BY Zenon DEF LedgerAssumption, IInv, Types
<1>2. row[KeyOf[q]].state \in {"absent", "claimed", "finalized"}
  BY <1>1, Zenon DEF RowType
<1>3. row[KeyOf[q]].lease # "none" => row[KeyOf[q]].state = "claimed"
  BY <1>1, Zenon DEF IInv, RowsOK
<1> QED BY <1>2, <1>3, Zenon DEF Outcome

LEMMA OutcomeReplay ==
  ASSUME LedgerAssumption, IInv, NEW q \in Requests, NEW live \in BOOLEAN,
         Outcome(q, row[KeyOf[q]], live) = "replay"
  PROVE  /\ row[KeyOf[q]].state = "finalized" /\ row[KeyOf[q]].hash = BodyHash[q]
         /\ row[KeyOf[q]].resp \in Requests
         /\ BodyHash[row[KeyOf[q]].resp] = BodyHash[q]
         /\ row[KeyOf[q]].resp \in Chat => stage[row[KeyOf[q]].resp] = "answered"
<1>1. KeyOf[q] \in Keys
  BY Zenon DEF LedgerAssumption
<1>2. row[KeyOf[q]].state = "finalized" /\ row[KeyOf[q]].hash = BodyHash[q]
  BY Zenon DEF Outcome
<1> QED BY <1>1, <1>2, Zenon DEF IInv, RowsOK

\* What a claim does, by what its handler was told.
LEMMA ClaimCases ==
  ASSUME LedgerAssumption, IInv, NEW q \in Requests, Claim(q)
  PROVE  /\ stage[q] = "idle" /\ served[q] = None
         /\ tries' \in [Requests -> Nat] /\ failures' \in Nat
         /\ \E live \in BOOLEAN, to \in Places :
              LET r == row[KeyOf[q]]
                  kind == Outcome(q, r, live)
              IN  /\ stage' = [stage EXCEPT ![q] = to]
                  /\ \/ /\ kind = "owned" /\ row' = [row EXCEPT ![KeyOf[q]] = Taken(q, r)]
                        /\ served' = served
                        /\ \/ /\ to = "owned"
                              /\ id' = [id EXCEPT ![q] = Taken(q, r).id]
                              /\ version' = [version EXCEPT ![q] = Taken(q, r).version]
                           \/ to = "idle" /\ UNCHANGED <<id, version>>
                     \/ /\ kind = "replay" /\ to = "answered"
                        /\ served' = [served EXCEPT ![q] = r.resp]
                        /\ UNCHANGED <<row, id, version>>
                     \/ /\ to \in {"idle", "conflict"} /\ served' = served
                        /\ UNCHANGED <<row, id, version>>
<1> DEFINE r == row[KeyOf[q]]
<1>1. stage[q] = "idle" /\ served[q] = None
  BY Zenon DEF Claim, IInv, AnswersOK
<1>2. tries' \in [Requests -> Nat]
  BY Zenon DEF Claim, IInv, Types
<1>3. PICK ending \in Endings, live \in BOOLEAN :
        LET kind == Outcome(q, r, live)
            told == IF ending = "answered" THEN kind ELSE "error"
        IN /\ Charge(Cost(ending) + Wrong(r, live))
           /\ IF kind = "owned" /\ ending # "failed"
              THEN Put(q, Taken(q, r)) ELSE UNCHANGED row
           /\ Go(q, CASE told = "owned" -> "owned"
                      [] told = "replay" -> "answered"
                      [] told = "conflict" -> "conflict"
                      [] OTHER -> "idle")
           /\ served' = [served EXCEPT ![q] = IF told = "replay" THEN r.resp ELSE @]
           /\ id' = [id EXCEPT ![q] = IF told = "owned" THEN Taken(q, r).id ELSE @]
           /\ version' = [version EXCEPT ![q] =
                            IF told = "owned" THEN Taken(q, r).version ELSE @]
  BY Zenon DEF Claim
<1> DEFINE kind == Outcome(q, r, live)
           told == IF ending = "answered" THEN kind ELSE "error"
<1>4. failures' \in Nat
  BY <1>3 DEF Charge, Cost, Wrong, IInv, Types
<1>5. /\ served = [served EXCEPT ![q] = served[q]] /\ id = [id EXCEPT ![q] = id[q]]
      /\ version = [version EXCEPT ![q] = version[q]]
  BY Zenon DEF IInv, Types
<1> HIDE DEF r, kind
<1>6. CASE told = "owned"
  <2>1. ending = "answered" /\ kind = "owned"
    BY <1>6, Zenon
  <2>2. /\ row' = [row EXCEPT ![KeyOf[q]] = Taken(q, r)]
        /\ stage' = [stage EXCEPT ![q] = "owned"] /\ served' = served
        /\ id' = [id EXCEPT ![q] = Taken(q, r).id]
        /\ version' = [version EXCEPT ![q] = Taken(q, r).version]
    BY <2>1, <1>3, <1>5, Zenon DEF Put, Go, kind
  <2> QED BY <1>1, <1>2, <1>4, <2>1, <2>2, Zenon DEF Places, Running, r, kind
<1>7. CASE told # "owned" /\ kind = "owned" /\ ending # "failed"
  <2>1. ending # "answered" /\ told = "error"
    BY <1>7, Zenon
  <2>2. /\ row' = [row EXCEPT ![KeyOf[q]] = Taken(q, r)]
        /\ stage' = [stage EXCEPT ![q] = "idle"] /\ served' = served
        /\ UNCHANGED <<id, version>>
    BY <2>1, <1>7, <1>3, <1>5, Zenon DEF Put, Go, kind
  <2> QED BY <1>1, <1>2, <1>4, <1>7, <2>2, Zenon DEF Places, Running, r, kind
<1>8. CASE told = "replay"
  <2>1. ending = "answered" /\ kind = "replay"
    BY <1>8, Zenon
  <2>2. /\ UNCHANGED row /\ stage' = [stage EXCEPT ![q] = "answered"]
        /\ served' = [served EXCEPT ![q] = r.resp] /\ UNCHANGED <<id, version>>
    BY <2>1, <1>3, <1>5, Zenon DEF Go, kind
  <2> QED BY <1>1, <1>2, <1>4, <2>1, <2>2, Zenon DEF Places, Running, r, kind
<1>9. CASE told \notin {"owned", "replay"} /\ ~(kind = "owned" /\ ending # "failed")
  <2>1. /\ UNCHANGED row /\ served' = served /\ UNCHANGED <<id, version>>
        /\ \E to \in {"idle", "conflict"} : stage' = [stage EXCEPT ![q] = to]
    BY <1>9, <1>3, <1>5, Zenon DEF Go, kind
  <2> QED BY <1>1, <1>2, <1>4, <2>1, Zenon DEF Places, Running, r, kind
<1> QED BY <1>6, <1>7, <1>8, <1>9, Zenon

LEMMA ClaimInv ==
  ASSUME LedgerAssumption, IInv, NEW q \in Requests, Claim(q)
  PROVE  IInv'
<1>1. PICK live \in BOOLEAN, to \in Places :
        LET r == row[KeyOf[q]]
            kind == Outcome(q, r, live)
        IN  /\ stage' = [stage EXCEPT ![q] = to]
            /\ \/ /\ kind = "owned" /\ row' = [row EXCEPT ![KeyOf[q]] = Taken(q, r)]
                  /\ served' = served
                  /\ \/ /\ to = "owned"
                        /\ id' = [id EXCEPT ![q] = Taken(q, r).id]
                        /\ version' = [version EXCEPT ![q] = Taken(q, r).version]
                     \/ to = "idle" /\ UNCHANGED <<id, version>>
               \/ /\ kind = "replay" /\ to = "answered"
                  /\ served' = [served EXCEPT ![q] = r.resp]
                  /\ UNCHANGED <<row, id, version>>
               \/ /\ to \in {"idle", "conflict"} /\ served' = served
                  /\ UNCHANGED <<row, id, version>>
  BY ClaimCases, Zenon
<1>2. /\ stage[q] = "idle" /\ served[q] = None
      /\ tries' \in [Requests -> Nat] /\ failures' \in Nat
  BY ClaimCases, Zenon
<1>3. served = [served EXCEPT ![q] = served[q]]
  BY Zenon DEF IInv, Types
<1>4. CASE /\ Outcome(q, row[KeyOf[q]], live) = "owned" /\ served' = served
           /\ row' = [row EXCEPT ![KeyOf[q]] = Taken(q, row[KeyOf[q]])]
           /\ \/ /\ to = "owned"
                 /\ id' = [id EXCEPT ![q] = Taken(q, row[KeyOf[q]]).id]
                 /\ version' = [version EXCEPT ![q] = Taken(q, row[KeyOf[q]]).version]
              \/ to = "idle" /\ UNCHANGED <<id, version>>
  <2>1. Local(q, to, served[q])
    BY <1>1, <1>2, <1>3, <1>4, Zenon DEF Local
  <2> QED BY <2>1, <1>4, OutcomeOwned, TakeStep, Zenon DEF Running
<1>5. CASE /\ Outcome(q, row[KeyOf[q]], live) = "replay" /\ to = "answered"
           /\ served' = [served EXCEPT ![q] = row[KeyOf[q]].resp]
           /\ UNCHANGED <<row, id, version>>
  <2>1. Local(q, to, row[KeyOf[q]].resp)
    BY <1>1, <1>2, <1>5, OutcomeReplay, Zenon DEF Local
  <2> QED BY <2>1, <1>5, QuietStep, Zenon DEF Running
<1>6. CASE /\ to \in {"idle", "conflict"} /\ served' = served
           /\ UNCHANGED <<row, id, version>>
  <2>1. Local(q, to, served[q])
    BY <1>1, <1>2, <1>3, <1>6, Zenon DEF Local
  <2> QED BY <2>1, <1>6, QuietStep, Zenon DEF Running
<1> QED BY <1>1, <1>4, <1>5, <1>6, Zenon
LEMMA WorkInv ==
  ASSUME LedgerAssumption, IInv, NEW q \in Requests,
         Execute(q) \/ Reject(q) \/ Leave(q) \/ Oversize(q) \/ Reply(q)
  PROVE  IInv'
<1>1. /\ UNCHANGED <<row, id, version>> /\ tries' \in [Requests -> Nat]
      /\ failures' \in Nat /\ stage[q] \in Running
  BY DEF Execute, Reject, Leave, Oversize, Reply, Charge, Running, IInv, Types
<1>2. served = [served EXCEPT ![q] = served[q]] /\ served[q] \in Requests \cup {None}
  BY Zenon DEF IInv, Types
<1>3. CASE Execute(q) \/ Reject(q) \/ Leave(q) \/ Oversize(q)
  <2>1. \E to : Local(q, to, served[q])
    <3>1. CASE Execute(q)
      <4>1. Local(q, "executed", served[q])
        BY <3>1, <1>1, <1>2, Zenon
           DEF Execute, Go, Local, Places, Running, IInv, AnswersOK
      <4> QED BY <4>1, Zenon
    <3>2. CASE Reject(q) \/ Oversize(q)
      <4>1. Local(q, "releasing", served[q])
        BY <3>2, <1>1, <1>2, Zenon DEF Reject, Oversize, Go, Local, Places, Running
      <4> QED BY <4>1, Zenon
    <3>3. CASE Leave(q)
      <4>1. Local(q, IF served[q] = None THEN "idle" ELSE "answered", served[q])
        BY <3>3, <1>1, <1>2, Zenon DEF Leave, Go, Local, Places, Running
      <4> QED BY <4>1, Zenon
    <3> QED BY <1>3, <3>1, <3>2, <3>3, Zenon
  <2> QED BY <2>1, <1>1, QuietStep, Zenon
<1>4. CASE Reply(q)
  <2>1. Local(q, "replied", q)
    BY <1>4, <1>1, <1>2, Zenon DEF Reply, Go, Local, Places, Running
  <2> QED BY <2>1, <1>1, QuietStep, Zenon
<1> QED BY <1>3, <1>4, Zenon

LEMMA ReleaseInv ==
  ASSUME LedgerAssumption, IInv, NEW q \in Requests, Release(q)
  PROVE  IInv'
<1> DEFINE to == IF served[q] = None THEN "idle" ELSE "answered"
<1>1. served = [served EXCEPT ![q] = served[q]] /\ served[q] \in Requests \cup {None}
  BY Zenon DEF IInv, Types
<1>2. failures' \in Nat
  BY DEF Release, Charge, Cost, IInv, Types
<1>3. Local(q, to, served[q])
  BY <1>1, <1>2, Zenon DEF Release, Go, Local, Places, IInv, Types
<1>4. stage[q] \in Running /\ UNCHANGED <<id, version>>
  BY Zenon DEF Release, Running
<1>5. \/ UNCHANGED row
      \/ /\ Owns(q, row[KeyOf[q]])
         /\ row' = [row EXCEPT ![KeyOf[q]] = Deleted(row[KeyOf[q]])]
  BY Zenon DEF Release, Put
<1> HIDE DEF to
<1>6. CASE UNCHANGED row
  BY <1>6, <1>3, <1>4, QuietStep, Zenon
<1>7. CASE /\ Owns(q, row[KeyOf[q]])
           /\ row' = [row EXCEPT ![KeyOf[q]] = Deleted(row[KeyOf[q]])]
  BY <1>7, <1>3, <1>4, EndStep, Zenon
<1> QED BY <1>5, <1>6, <1>7, Zenon

\* What a finalize does.
LEMMA FinalizeCases ==
  ASSUME LedgerAssumption, IInv, NEW q \in Requests, Finalize(q)
  PROVE  /\ stage[q] \in {"executed", "replied"} /\ UNCHANGED <<id, version>>
         /\ \E to \in Places, a \in {q, served[q]} :
              /\ Local(q, to, a)
              /\ q \in Chat => to = "answered" /\ a = served[q]
              /\ \/ /\ Owns(q, row[KeyOf[q]])
                    /\ row' = [row EXCEPT ![KeyOf[q]] = Finalized(q, row[KeyOf[q]])]
                 \/ row' = row /\ a = served[q]
              /\ to # stage[q] \/ tries'[q] # tries[q]
<1>1. PICK ending \in Endings :
       /\ Charge(Cost(ending))
       /\ IF Owns(q, row[KeyOf[q]]) /\ ending # "failed"
          THEN Put(q, Finalized(q, row[KeyOf[q]])) ELSE UNCHANGED row
       /\ Go(q, AfterFinalize(q, Owns(q, row[KeyOf[q]]), ending))
       /\ served' = [served EXCEPT ![q] =
            IF q \notin Chat /\ AfterFinalize(q, Owns(q, row[KeyOf[q]]), ending) = "answered"
            THEN q ELSE @]
       /\ tries' = [tries EXCEPT ![q] = @ + Cost(ending)]
  BY Zenon DEF Finalize
<1> DEFINE to == AfterFinalize(q, Owns(q, row[KeyOf[q]]), ending)
           a == IF q \notin Chat /\ to = "answered" THEN q ELSE served[q]
<1>2. /\ stage[q] = IF q \in Chat THEN "replied" ELSE "executed"
      /\ UNCHANGED <<id, version>>
  BY Zenon DEF Finalize
<1>3. /\ q \in Chat => to = "answered"
      /\ q \notin Chat => to \in {"answered", "executed", "idle"}
      /\ q \notin Chat /\ to = "answered" => ending = "answered" /\ Owns(q, row[KeyOf[q]])
      /\ q \notin Chat /\ to = "executed" => ending # "answered"
  BY <1>1, Zenon DEF AfterFinalize, Endings
<1>4. /\ failures' \in Nat /\ tries' \in [Requests -> Nat]
      /\ ending # "answered" => tries'[q] # tries[q]
  BY <1>1 DEF Charge, Cost, IInv, Types
<1>5. served[q] \in Requests \cup {None} /\ (stage[q] = "executed" => served[q] = None)
  BY Zenon DEF IInv, Types, AnswersOK
<1>6. stage' = [stage EXCEPT ![q] = to] /\ served' = [served EXCEPT ![q] = a]
  BY <1>1, Zenon DEF Go
<1> HIDE DEF to
<1>7. to \in Places /\ a \in {q, served[q]} /\ (q \in Chat => a = served[q])
  BY <1>3, Zenon DEF Places, Running
<1>8. to \in {"idle", "owned", "executed"} => a = None
  BY <1>2, <1>3, <1>5, Zenon
<1>9. \/ /\ Owns(q, row[KeyOf[q]])
         /\ row' = [row EXCEPT ![KeyOf[q]] = Finalized(q, row[KeyOf[q]])]
      \/ row' = row /\ a = served[q]
  BY <1>1, <1>3, Zenon DEF Put
<1>10. to # stage[q] \/ tries'[q] # tries[q]
  BY <1>2, <1>3, <1>4, Zenon
<1> HIDE DEF a
<1>11. Local(q, to, a)
  BY <1>2, <1>4, <1>5, <1>6, <1>7, <1>8, Zenon DEF Local
<1> QED BY <1>2, <1>3, <1>7, <1>9, <1>10, <1>11, Zenon

LEMMA FinalizeInv ==
  ASSUME LedgerAssumption, IInv, NEW q \in Requests, Finalize(q)
  PROVE  IInv'
<1>1. stage[q] \in Running /\ UNCHANGED <<id, version>>
  BY FinalizeCases, Zenon DEF Running
<1>2. PICK to \in Places, a \in {q, served[q]} :
        /\ Local(q, to, a)
        /\ q \in Chat => to = "answered" /\ a = served[q]
        /\ \/ /\ Owns(q, row[KeyOf[q]])
              /\ row' = [row EXCEPT ![KeyOf[q]] = Finalized(q, row[KeyOf[q]])]
           \/ row' = row /\ a = served[q]
  BY FinalizeCases, Zenon
<1>3. CASE /\ Owns(q, row[KeyOf[q]])
           /\ row' = [row EXCEPT ![KeyOf[q]] = Finalized(q, row[KeyOf[q]])]
  BY <1>1, <1>2, <1>3, EndStep, Zenon
<1>4. CASE row' = row
  BY <1>1, <1>2, <1>4, QuietStep, Zenon
<1> QED BY <1>2, <1>3, <1>4, Zenon

LEMMA NextInv == ASSUME LedgerAssumption PROVE IInv /\ [LedgerNext]_ledgerVars => IInv'
<1> SUFFICES ASSUME IInv, [LedgerNext]_ledgerVars PROVE IInv'
  OBVIOUS
<1>1. ASSUME NEW q \in Requests, Move(q) PROVE IInv'
  BY <1>1, ClaimInv, WorkInv, ReleaseInv, FinalizeInv, Zenon DEF Move
<1>2. ASSUME NEW k \in Keys, Lapse(k) PROVE IInv'
  BY <1>2, LapseInv, Zenon
<1>3. CASE UNCHANGED ledgerVars
  BY <1>3
     DEF ledgerVars, callVars, IInv, Types, RowsOK, TokensOK, OneOwner, HashOK, AnswersOK, Owns
<1> QED BY <1>1, <1>2, <1>3, Zenon DEF LedgerNext

\* The inductive invariant holds in every state the ledger can reach.
THEOREM Invariance == ASSUME LedgerAssumption PROVE LedgerSpec => []IInv
<1> QED BY InitInv, NextInv, PTL DEF LedgerSpec

\* At most one handler at work holds the token of a row, for any number of
\* requests, lapses, takeovers and lost answers (Owns, the WHERE clause of
\* Finalize and Release).
THEOREM OneOwnerTheorem == ASSUME LedgerAssumption PROVE LedgerSpec => []OneOwner
<1>1. IInv => OneOwner
  BY Zenon DEF IInv
<1> QED BY <1>1, Invariance, PTL
-----------------------------------------------------------------------------
(* What a step does to the rows                                            *)

\* A row in force changes its version only by a step of its owner.
LEMMA KeptStep ==
  ASSUME LedgerAssumption, IInv, [LedgerNext]_ledgerVars, NEW k \in Keys,
         row[k].lease = "live", row'[k].version # row[k].version
  PROVE  \E q \in Requests : /\ KeyOf[q] = k /\ Owns(q, row[k]) /\ stage[q] \in Running
                             /\ <<stage'[q], tries'[q]>> # <<stage[q], tries[q]>>
<1>1. ASSUME NEW q \in Requests, Claim(q) PROVE FALSE
  <2>1. PICK live \in BOOLEAN :
          \/ UNCHANGED row
          \/ /\ Outcome(q, row[KeyOf[q]], live) = "owned"
             /\ row' = [row EXCEPT ![KeyOf[q]] = Taken(q, row[KeyOf[q]])]
    BY <1>1, ClaimCases, Zenon
  <2>2. Outcome(q, row[KeyOf[q]], live) = "owned" => KeyOf[q] # k
    BY OutcomeOwned, Zenon
  <2> QED BY <2>1, <2>2, Zenon DEF IInv, Types
<1>2. ASSUME NEW q \in Requests,
             Execute(q) \/ Reject(q) \/ Leave(q) \/ Oversize(q) \/ Reply(q)
      PROVE  FALSE
  BY <1>2, Zenon DEF Execute, Reject, Leave, Oversize, Reply
<1>3. ASSUME NEW q \in Requests, Release(q)
      PROVE  /\ KeyOf[q] = k /\ Owns(q, row[k]) /\ stage[q] \in Running
             /\ stage'[q] # stage[q]
  <2>1. Owns(q, row[KeyOf[q]]) /\ KeyOf[q] = k
    BY <1>3, Zenon DEF Release, Put, IInv, Types
  <2>2. stage[q] \in Running /\ stage'[q] # stage[q]
    BY <1>3, Zenon DEF Release, Go, Running, IInv, Types
  <2> QED BY <2>1, <2>2, Zenon
<1>4. ASSUME NEW q \in Requests, Finalize(q)
      PROVE  /\ KeyOf[q] = k /\ Owns(q, row[k]) /\ stage[q] \in Running
             /\ stage'[q] # stage[q] \/ tries'[q] # tries[q]
  <2>1. PICK to \in Places, a \in {q, served[q]} :
          /\ Local(q, to, a)
          /\ \/ /\ Owns(q, row[KeyOf[q]])
                /\ row' = [row EXCEPT ![KeyOf[q]] = Finalized(q, row[KeyOf[q]])]
             \/ row' = row
          /\ to # stage[q] \/ tries'[q] # tries[q]
    BY <1>4, FinalizeCases
  <2>2. Owns(q, row[KeyOf[q]]) /\ KeyOf[q] = k
    BY <2>1, Zenon DEF IInv, Types
  <2>3. stage'[q] = to /\ stage[q] \in Running
    BY <1>4, <2>1, FinalizeCases, Zenon DEF Local, Running, IInv, Types
  <2> QED BY <2>1, <2>2, <2>3, Zenon
<1>5. ASSUME NEW l \in Keys, Lapse(l) PROVE FALSE
  <2>1. row'[k].version = row[k].version
    <3>1. row[l] \in RowType
      BY Zenon DEF IInv, Types
    <3>2. CASE k = l
      BY <3>1, <3>2, <1>5, Zenon DEF Lapse, IInv, Types, RowType
    <3>3. CASE k # l
      BY <3>3, <1>5, Zenon DEF Lapse, IInv, Types
    <3> QED BY <3>2, <3>3, Zenon
  <2> QED BY <2>1, Zenon
<1>6. CASE UNCHANGED ledgerVars
  BY <1>6, Zenon DEF ledgerVars
<1>7. CASE \E q \in Requests : Move(q)
  <2>1. PICK q \in Requests : Release(q) \/ Finalize(q)
    BY <1>7, <1>1, <1>2, Zenon DEF Move
  <2>2. /\ KeyOf[q] = k /\ Owns(q, row[k]) /\ stage[q] \in Running
        /\ stage'[q] # stage[q] \/ tries'[q] # tries[q]
    BY <2>1, <1>3, <1>4, Zenon
  <2>3. <<stage'[q], tries'[q]>> # <<stage[q], tries[q]>>
    BY <2>2, Zenon
  <2> QED BY <2>2, <2>3, Zenon
<1> QED BY <1>5, <1>6, <1>7, Zenon DEF LedgerNext

\* A claim in force is taken by nobody and ended by its owner only, for every
\* clock and schedule (Claim, Finalize and Release of the ledger).
THEOREM KeptTheorem == ASSUME LedgerAssumption PROVE LedgerSpec => LiveClaimIsKept
<1>1. IInv /\ [LedgerNext]_ledgerVars =>
        [\A k \in Keys :
           row[k].lease = "live" /\ row'[k].version # row[k].version =>
             \E q \in Requests : /\ KeyOf[q] = k /\ Owns(q, row[k])
                                 /\ stage[q] \in Running
                                 /\ <<stage'[q], tries'[q]>> # <<stage[q], tries[q]>>]_ledgerVars
  BY KeptStep, Zenon
<1> QED BY <1>1, Invariance, PTL DEF LedgerSpec, LiveClaimIsKept

-----------------------------------------------------------------------------
(* The ledger implements ReplayOnce                                        *)

\* The refinement mapping of Promise.
Recorded == [k \in Keys |-> IF row[k].state = "finalized" THEN row[k].resp ELSE None]
Answers == [q \in Requests |-> IF q \in Chat /\ served[q] = q THEN None ELSE served[q]]

LEMMA PromiseInit == ASSUME LedgerAssumption PROVE LedgerInit => Promise!Init
BY DEF LedgerInit, Promise!Init, LedgerAssumption

\* A step that records nothing and answers nobody is a stutter of the promise.
LEMMA Stutter ==
  ASSUME LedgerAssumption, IInv,
         \A k \in Keys : /\ row'[k].state = "finalized" <=> row[k].state = "finalized"
                         /\ row[k].state = "finalized" => row'[k].resp = row[k].resp,
         \A q \in Requests : \/ served'[q] = served[q]
                             \/ q \in Chat /\ served[q] = None /\ served'[q] = q
  PROVE  UNCHANGED <<Recorded, Answers>>
<1>1. Recorded' = Recorded
  BY Zenon DEF Recorded
<1>2. Answers' = Answers
  BY Zenon DEF Answers
<1> QED BY <1>1, <1>2, Zenon

LEMMA AnswerStep ==
  ASSUME LedgerAssumption, IInv, NEW q \in Requests, NEW live \in BOOLEAN,
         Outcome(q, row[KeyOf[q]], live) = "replay",
         stage[q] = "idle", UNCHANGED row,
         served' = [served EXCEPT ![q] = row[KeyOf[q]].resp]
  PROVE  Promise!Answer(q)
<1> DEFINE k == KeyOf[q]
<1>1. k \in Keys /\ served[q] = None /\ None \notin Requests
  BY Zenon DEF LedgerAssumption, IInv, AnswersOK
<1>2. /\ row[k].state = "finalized" /\ row[k].resp \in Requests
      /\ BodyHash[row[k].resp] = BodyHash[q]
      /\ row[k].resp \in Chat => row[k].resp # q
  BY OutcomeReplay, Zenon
<1> HIDE DEF k
<1>3. Answers[q] = None /\ Recorded[k] = row[k].resp
  BY <1>1, <1>2, Zenon DEF Answers, Recorded
<1>4. Recorded' = Recorded
  BY Zenon DEF Recorded
<1>5. Answers' = [Answers EXCEPT ![q] = row[k].resp]
  BY <1>1, <1>2, Zenon DEF Answers, IInv, Types, k
<1> QED BY <1>1, <1>2, <1>3, <1>4, <1>5, Zenon
    DEF Promise!Answer, Promise!Answered, Recorded, Answers, k

LEMMA RecordStep ==
  ASSUME LedgerAssumption, IInv, NEW q \in Requests, NEW a \in {q, served[q]},
         served' = [served EXCEPT ![q] = a], q \in Chat => a = served[q],
         Owns(q, row[KeyOf[q]]),
         row' = [row EXCEPT ![KeyOf[q]] = Finalized(q, row[KeyOf[q]])]
  PROVE  Promise!Record(q)
<1> DEFINE k == KeyOf[q]
<1>1. k \in Keys
  BY Zenon DEF LedgerAssumption
<1>2. Recorded[k] = None
  BY <1>1, Zenon DEF Owns, Recorded
<1>3. Recorded' = [Recorded EXCEPT ![k] = q]
  <2>1. row'[k].state = "finalized" /\ row'[k].resp = q
    BY <1>1, Zenon DEF IInv, Types, Finalized
  <2>2. \A l \in Keys \ {k} : row'[l] = row[l]
    BY Zenon DEF IInv, Types
  <2> HIDE DEF k
  <2>3. \A l \in Keys : Recorded'[l] = IF l = k THEN q ELSE Recorded[l]
    BY <2>1, <2>2, <1>1 DEF Recorded
  <2>4. /\ Recorded = [l \in Keys |-> Recorded[l]]
        /\ Recorded' = [l \in Keys |-> Recorded'[l]]
    BY DEF Recorded
  <2> HIDE DEF Recorded
  <2> QED BY <2>3, <2>4, <1>1, Zenon
<1>4. Answers' = [Answers EXCEPT ![q] = q] \/ Answers' = Answers
  <2>1. CASE a = served[q]
    <3>1. served' = served
      BY <2>1, Zenon DEF IInv, Types
    <3> QED BY <3>1, Zenon DEF Answers
  <2>2. CASE a = q /\ q \notin Chat
    <3>1. served'[q] = q /\ \A p \in Requests \ {q} : served'[p] = served[p]
      BY <2>2, Zenon DEF IInv, Types
    <3> QED BY <3>1, <2>2, Zenon DEF Answers
  <2> QED BY <2>1, <2>2, Zenon
<1> QED BY <1>2, <1>3, <1>4, Zenon
           DEF Promise!Record, Promise!Answered, Recorded, Answers

LEMMA PromiseStep ==
  ASSUME LedgerAssumption, IInv, [LedgerNext]_ledgerVars
  PROVE  [Promise!Next]_<<Recorded, Answers>>
<1>1. ASSUME NEW q \in Requests, Claim(q)
      PROVE  Promise!Answer(q) \/ UNCHANGED <<Recorded, Answers>>
  <2>1. PICK live \in BOOLEAN :
          LET r == row[KeyOf[q]]
              kind == Outcome(q, r, live)
          IN \/ /\ kind = "owned" /\ row' = [row EXCEPT ![KeyOf[q]] = Taken(q, r)]
                /\ served' = served
             \/ /\ kind = "replay" /\ served' = [served EXCEPT ![q] = r.resp]
                /\ UNCHANGED row
             \/ served' = served /\ UNCHANGED row
    BY <1>1, ClaimCases, Zenon
  <2>2. stage[q] = "idle"
    BY <1>1, Zenon DEF Claim
  <2>3. CASE /\ Outcome(q, row[KeyOf[q]], live) = "owned" /\ served' = served
             /\ row' = [row EXCEPT ![KeyOf[q]] = Taken(q, row[KeyOf[q]])]
    <3>1. row[KeyOf[q]].state # "finalized" /\ KeyOf[q] \in Keys
      BY <2>3, OutcomeOwned, Zenon DEF LedgerAssumption
    <3>2. Taken(q, row[KeyOf[q]]).state = "claimed"
      BY Zenon DEF Taken, Inserted, Reclaimed
    <3>3. \A k \in Keys : /\ row'[k].state = "finalized" <=> row[k].state = "finalized"
                          /\ row[k].state = "finalized" => row'[k].resp = row[k].resp
      BY <2>3, <3>1, <3>2, Zenon DEF IInv, Types
    <3> QED BY <2>3, <3>3, Stutter, Zenon
  <2>4. CASE /\ Outcome(q, row[KeyOf[q]], live) = "replay" /\ UNCHANGED row
             /\ served' = [served EXCEPT ![q] = row[KeyOf[q]].resp]
    BY <2>2, <2>4, AnswerStep, Zenon
  <2>5. CASE served' = served /\ UNCHANGED row
    BY <2>5, Stutter, Zenon
  <2> QED BY <2>1, <2>3, <2>4, <2>5, Zenon
<1>2. ASSUME NEW q \in Requests,
             Execute(q) \/ Reject(q) \/ Leave(q) \/ Oversize(q) \/ Reply(q)
      PROVE  UNCHANGED <<Recorded, Answers>>
  <2>1. UNCHANGED row
    BY <1>2, Zenon DEF Execute, Reject, Leave, Oversize, Reply
  <2>2. \A p \in Requests : \/ served'[p] = served[p]
                            \/ p \in Chat /\ served[p] = None /\ served'[p] = p
    <3>1. CASE Execute(q) \/ Reject(q) \/ Leave(q) \/ Oversize(q)
      <4>1. served' = served
        BY <3>1, Zenon DEF Execute, Reject, Leave, Oversize
      <4> QED BY <4>1, Zenon
    <3>2. CASE Reply(q)
      <4>1. q \in Chat /\ stage[q] = "executed" /\ served' = [served EXCEPT ![q] = q]
        BY <3>2, Zenon DEF Reply
      <4>2. served[q] = None /\ served'[q] = q /\ \A p \in Requests \ {q} : served'[p] = served[p]
        BY <4>1, Zenon DEF IInv, Types, AnswersOK
      <4> QED BY <4>1, <4>2, Zenon
    <3> QED BY <1>2, <3>1, <3>2, Zenon
  <2> QED BY <2>1, <2>2, Stutter, Zenon
<1>3. ASSUME NEW q \in Requests, Release(q)
      PROVE  UNCHANGED <<Recorded, Answers>>
  <2>1. \/ UNCHANGED row
        \/ /\ Owns(q, row[KeyOf[q]])
           /\ row' = [row EXCEPT ![KeyOf[q]] = Deleted(row[KeyOf[q]])]
    BY <1>3, Zenon DEF Release, Put
  <2>2. \A k \in Keys : /\ row'[k].state = "finalized" <=> row[k].state = "finalized"
                        /\ row[k].state = "finalized" => row'[k].resp = row[k].resp
    BY <2>1 DEF Owns, Deleted, IInv, Types
  <2> QED BY <1>3, <2>2, Stutter, Zenon DEF Release
<1>4. ASSUME NEW q \in Requests, Finalize(q)
      PROVE  Promise!Record(q) \/ UNCHANGED <<Recorded, Answers>>
  <2>1. PICK to \in Places, a \in {q, served[q]} :
          /\ Local(q, to, a)
          /\ q \in Chat => a = served[q]
          /\ \/ /\ Owns(q, row[KeyOf[q]])
                /\ row' = [row EXCEPT ![KeyOf[q]] = Finalized(q, row[KeyOf[q]])]
             \/ row' = row /\ a = served[q]
    BY <1>4, FinalizeCases, Zenon
  <2>2. served' = [served EXCEPT ![q] = a]
    BY <2>1, Zenon DEF Local
  <2>3. CASE /\ Owns(q, row[KeyOf[q]])
             /\ row' = [row EXCEPT ![KeyOf[q]] = Finalized(q, row[KeyOf[q]])]
    BY <2>1, <2>2, <2>3, RecordStep, Zenon
  <2>4. CASE row' = row /\ a = served[q]
    <3>1. served' = served
      BY <2>2, <2>4, Zenon DEF IInv, Types
    <3> QED BY <2>4, <3>1, Stutter, Zenon
  <2> QED BY <2>1, <2>3, <2>4, Zenon
<1>5. ASSUME NEW k \in Keys, Lapse(k)
      PROVE  UNCHANGED <<Recorded, Answers>>
  <2>1. row[k] \in RowType
    BY Zenon DEF IInv, Types
  <2>2. \A l \in Keys : row'[l].state = row[l].state /\ row'[l].resp = row[l].resp
    BY <1>5, <2>1, Zenon DEF Lapse, IInv, Types, RowType
  <2> QED BY <1>5, <2>2, Stutter, Zenon DEF Lapse, callVars
<1>6. CASE UNCHANGED ledgerVars
  BY <1>6, Stutter, Zenon DEF ledgerVars, callVars
<1>7. ASSUME NEW q \in Requests, Promise!Answer(q) \/ Promise!Record(q)
      PROVE  Promise!Next
  BY <1>7, Zenon DEF Promise!Next
<1> QED BY <1>1, <1>2, <1>3, <1>4, <1>5, <1>6, <1>7, Zenon DEF LedgerNext, Move

\* Every behaviour of the ledger is one of the promise: one response is recorded
\* for a key, it stays, and whoever is answered from the ledger gets it.
THEOREM PromiseTheorem == ASSUME LedgerAssumption PROVE LedgerSpec => KeepsPromise
<1>1. IInv /\ [LedgerNext]_ledgerVars => [Promise!Next]_<<Recorded, Answers>>
  BY PromiseStep, Zenon
<1>2. IInv /\ [LedgerNext]_ledgerVars =>
        [Promise!Next]_<<[k \in Keys |-> IF row[k].state = "finalized" THEN row[k].resp ELSE None],
                         [q \in Requests |-> IF q \in Chat /\ served[q] = q THEN None ELSE served[q]]>>
  BY <1>1, Zenon DEF Recorded, Answers
<1> QED BY <1>2, PromiseInit, Invariance, PTL DEF LedgerSpec, KeepsPromise, Promise!Spec

\* The three together: what the four callers of the ledger rely on, for any
\* number of keys, requests, retries, wrong clocks and lost answers.
THEOREM PromiseIsKeptTheorem == ASSUME LedgerAssumption PROVE LedgerSpec => PromiseIsKept
BY PromiseTheorem, OneOwnerTheorem, KeptTheorem, PTL DEF PromiseIsKept

-----------------------------------------------------------------------------
(* The claims in Redis.  ClaimIsExclusive needs that a claim is held to    *)
(* the EXEC of its handler, CompletedStays that a transaction whose watch  *)
(* is clean still sees the pending record it read, ReplayIsGenuine that a  *)
(* response is committed only after its own client was given it.           *)

\* A claim is a handler's, and a handler at its transaction has one.
ClaimsRun ==
  \A q \in Posts : /\ claimed[q] => place[q] \in AtWork
                   /\ place[q] \in {"watch", "get", "exec"} => claimed[q]

\* Without an overrun a claim is the record, up to the transaction.
ClaimsStand ==
  \A q \in Posts : ~overrun[RedisKey[q]] /\ claimed[q] => rec[RedisKey[q]] = [state |-> "pending", by |-> q]

\* A transaction that will be carried out replaces a pending record of its fingerprint.
CleanIsPending ==
  \A q \in Posts : place[q] = "exec" /\ clean[q] => MayWrite(q, rec[RedisKey[q]])

\* A record was written under its own key.
RecordsInPlace == \A k \in RedisKeys : rec[k] # Absent => RedisKey[rec[k].by] = k

\* Who has been given an answer, and a committed one is among them.
AnswersGiven ==
  /\ \A q \in Posts :
       /\ place[q] \in {"claim", "inspect", "working", "conflict"} => given[q] = Nobody
       /\ place[q] \in {"watch", "get", "exec"} => given[q] = IF keep[q] THEN q ELSE Nobody
  /\ \A k \in RedisKeys : rec[k].state = "completed" => given[rec[k].by] = rec[k].by

RedisInv == /\ RedisTypeOK /\ ClaimsRun /\ ClaimsStand /\ CleanIsPending /\ RecordsInPlace
            /\ AnswersGiven /\ ReplayIsGenuine

\* What a record is.
LEMMA RecordForms ==
  ASSUME RedisAssumption, RedisInv, NEW k \in RedisKeys
  PROVE  \/ rec[k] = Absent
         \/ /\ rec[k].state \in {"pending", "completed"} /\ rec[k].by \in Posts
            /\ rec[k] # Absent /\ RedisKey[rec[k].by] = k
BY Zenon DEF RedisInv, RedisTypeOK, Records, RecordsInPlace, Absent, RedisAssumption

\* Writing a key.
LEMMA WriteEffect ==
  ASSUME RedisInv, NEW k \in RedisKeys, NEW r, Write(k, r)
  PROVE  /\ \A j \in RedisKeys : rec'[j] = IF j = k THEN r ELSE rec[j]
         /\ \A q \in Posts : clean'[q] <=> clean[q] /\ RedisKey[q] # k
         /\ clean' \in [Posts -> BOOLEAN]
         /\ r \in Records => rec' \in [RedisKeys -> Records]
BY Zenon DEF RedisInv, RedisTypeOK, Write

\* The two kinds of record that are written.
LEMMA RecordTypes ==
  ASSUME NEW q \in Posts
  PROVE  /\ [state |-> "pending", by |-> q] \in Records
         /\ [state |-> "completed", by |-> q] \in Records
         /\ Absent \in Records
BY Zenon DEF Records

\* One request moves; what the others see of it.
Others(q) ==
  \A p \in Posts \ {q} : /\ place'[p] = place[p] /\ claimed'[p] = claimed[p] /\ keep'[p] = keep[p]
                         /\ casTries'[p] = casTries[p] /\ given'[p] = given[p]

\* A step that leaves the records alone.
LEMMA LocalKeeps ==
  ASSUME RedisAssumption, RedisInv, NEW q \in Posts, Others(q), RedisTypeOK', UNCHANGED <<rec, overrun>>,
         \A p \in Posts \ {q} : clean'[p] = clean[p],
         claimed'[q] => claimed[q] /\ place'[q] \in AtWork,
         place'[q] \in {"watch", "get", "exec"} => claimed'[q],
         place'[q] = "exec" /\ clean'[q] => MayWrite(q, rec[RedisKey[q]]),
         place'[q] \in {"claim", "inspect", "working", "conflict"} => given'[q] = Nobody,
         place'[q] \in {"watch", "get", "exec"} => given'[q] = IF keep'[q] THEN q ELSE Nobody,
         given'[q] = given[q] \/
           (given[q] = Nobody /\ (given'[q] = q \/
              \E k \in RedisKeys : /\ rec[k].state = "completed" /\ given'[q] = rec[k].by
                                   /\ RedisKey[q] = k /\ Fingerprint[rec[k].by] = Fingerprint[q]))
  PROVE  RedisInv'
<1> USE DEF RedisInv, Others
<1>1. ClaimsRun' /\ ClaimsStand' /\ RecordsInPlace'
  BY Zenon DEF ClaimsRun, ClaimsStand, RecordsInPlace
<1>2. CleanIsPending'
  BY DEF CleanIsPending, MayWrite
<1>3. \A p \in Posts : given[p] # Nobody => given'[p] = given[p]
  OBVIOUS
<1>4. AnswersGiven'
  <2>1. \A k \in RedisKeys : rec'[k].state = "completed" => given'[rec'[k].by] = rec'[k].by
    BY <1>3, RecordForms DEF AnswersGiven, Absent, RedisAssumption
  <2> QED BY <2>1 DEF AnswersGiven
<1>5. ReplayIsGenuine'
  <2> SUFFICES ASSUME NEW p \in Posts, given'[p] # Nobody
               PROVE  /\ RedisKey[given'[p]] = RedisKey[p] /\ Fingerprint[given'[p]] = Fingerprint[p]
                      /\ given'[given'[p]] = given'[p]
    BY Zenon DEF ReplayIsGenuine
  <2>1. CASE given'[p] = given[p]
    <3>1. given[p] \in Posts /\ given[given[p]] = given[p]
      BY <2>1 DEF RedisTypeOK, ReplayIsGenuine
    <3>2. given'[given[p]] = given[given[p]]
      BY <1>3, <3>1, Zenon DEF RedisAssumption
    <3> QED BY <2>1, <3>1, <3>2 DEF ReplayIsGenuine
  <2>2. CASE given'[p] # given[p] /\ given'[p] = p
    BY <2>2, Zenon
  <2>3. CASE given'[p] # given[p] /\ given'[p] # p
    <3>1. p = q
      BY <2>3, Zenon
    <3>2. PICK k \in RedisKeys : /\ rec[k].state = "completed" /\ given'[q] = rec[k].by
                                 /\ RedisKey[q] = k /\ Fingerprint[rec[k].by] = Fingerprint[q]
      BY <2>3, <3>1, Zenon
    <3>3. rec[k].by \in Posts /\ RedisKey[rec[k].by] = k /\ given[rec[k].by] = rec[k].by
      BY <3>2, RecordForms DEF AnswersGiven, Absent
    <3>4. given'[rec[k].by] = rec[k].by
      BY <1>3, <3>3, Zenon DEF RedisAssumption
    <3> QED BY <3>1, <3>2, <3>3, <3>4
  <2> QED BY <2>1, <2>2, <2>3, Zenon
<1> QED BY <1>1, <1>2, <1>4, <1>5, Zenon

\* A step that writes the key of its request, on which nobody else has a claim.
LEMMA RecordKeeps ==
  ASSUME RedisAssumption, RedisInv, NEW q \in Posts, NEW r \in Records, Write(RedisKey[q], r), Others(q),
         RedisTypeOK', UNCHANGED <<overrun, given>>,
         r # Absent => r.by = q,
         r.state = "completed" => given[q] = q,
         \A p \in Posts \ {q} : RedisKey[p] = RedisKey[q] /\ claimed[p] => overrun[RedisKey[q]],
         claimed'[q] => place'[q] \in AtWork /\ r = [state |-> "pending", by |-> q],
         place'[q] \notin {"watch", "get", "exec"},
         place'[q] \in {"claim", "inspect", "working", "conflict"} => given[q] = Nobody
  PROVE  RedisInv'
<1>0. RedisKey[q] \in RedisKeys
  BY Zenon DEF RedisAssumption
<1>1. /\ \A j \in RedisKeys : rec'[j] = IF j = RedisKey[q] THEN r ELSE rec[j]
      /\ \A p \in Posts : clean'[p] <=> clean[p] /\ RedisKey[p] # RedisKey[q]
  BY <1>0, WriteEffect, Zenon
<1> USE DEF RedisInv, Others
<1>2. ClaimsRun'
  BY Zenon DEF ClaimsRun
<1>3. ClaimsStand'
  BY <1>1 DEF ClaimsStand, RedisAssumption
<1>4. RecordsInPlace'
  BY <1>1 DEF RecordsInPlace
<1>5. CleanIsPending'
  BY <1>1 DEF CleanIsPending, MayWrite, RedisAssumption
<1>6. AnswersGiven'
  <2>1. ASSUME NEW k \in RedisKeys, rec'[k].state = "completed"
        PROVE  given'[rec'[k].by] = rec'[k].by
    <3>1. CASE k = RedisKey[q]
      <4>1. rec'[k] = r /\ r.state = "completed" /\ r # Absent
        BY <1>1, <2>1, <3>1 DEF Absent
      <4> QED BY <4>1, Zenon
    <3>2. CASE k # RedisKey[q]
      <4>1. rec'[k] = rec[k]
        BY <1>1, <3>2, Zenon
      <4> QED BY <2>1, <4>1 DEF AnswersGiven
    <3> QED BY <3>1, <3>2, Zenon
  <2> QED BY <2>1, Zenon DEF AnswersGiven
<1>7. ReplayIsGenuine'
  BY Zenon DEF ReplayIsGenuine
<1> QED BY <1>2, <1>3, <1>4, <1>5, <1>6, <1>7, Zenon

\* A key runs out.
LEMMA RecordExpires ==
  ASSUME RedisAssumption, RedisInv, NEW k \in RedisKeys, ExpirePending(k) \/ ExpireCompleted(k) PROVE RedisInv'
<1>0. Write(k, Absent) /\ Absent \in Records
  BY Zenon DEF ExpirePending, ExpireCompleted, Records
<1>1. /\ \A j \in RedisKeys : rec'[j] = IF j = k THEN Absent ELSE rec[j]
      /\ \A p \in Posts : clean'[p] <=> clean[p] /\ RedisKey[p] # k
      /\ clean' \in [Posts -> BOOLEAN] /\ rec' \in [RedisKeys -> Records]
  BY <1>0, WriteEffect, Zenon
<1> USE DEF RedisInv, ExpirePending, ExpireCompleted
<1>2. UNCHANGED <<place, claimed, keep, casTries, given>>
  OBVIOUS
<1>3. errors' \in 0..MaxErrors
  BY DEF RedisFails, RedisTypeOK, RedisAssumption
<1>4. overrun' \in [RedisKeys -> BOOLEAN] /\ \A j \in RedisKeys : overrun[j] => overrun'[j]
  BY Zenon DEF RedisTypeOK
<1>5. RedisTypeOK'
  BY <1>1, <1>2, <1>3, <1>4, Zenon DEF RedisTypeOK
<1>6. ClaimsStand'
  <2> SUFFICES ASSUME NEW q \in Posts, ~overrun'[RedisKey[q]], claimed[q]
               PROVE  rec'[RedisKey[q]] = [state |-> "pending", by |-> q]
    BY <1>2, Zenon DEF ClaimsStand
  <2>1. RedisKey[q] \in RedisKeys
    BY Zenon DEF RedisAssumption
  <2>2. ~overrun[RedisKey[q]]
    BY <1>4, <2>1, Zenon
  <2>3. rec[RedisKey[q]] = [state |-> "pending", by |-> q]
    BY <2>2, Zenon DEF ClaimsStand
  <2>4. RedisKey[q] # k
    <3> SUFFICES ASSUME RedisKey[q] = k PROVE FALSE
      OBVIOUS
    <3>1. rec[k].state = "pending" /\ rec[k].by = q
      BY <2>3
    <3>2. ExpirePending(k)
      BY <3>1, Zenon
    <3>3. Owned(k)
      BY <3>1, Zenon DEF Owned, ClaimsRun
    <3>4. overrun'[k] = (overrun[k] \/ Owned(k))
      BY <3>2, Zenon DEF RedisTypeOK
    <3> QED BY <3>3, <3>4, Zenon
  <2> QED BY <1>1, <2>1, <2>3, <2>4, Zenon
<1>7. ClaimsRun' /\ RecordsInPlace' /\ ReplayIsGenuine'
  BY <1>1, <1>2, ZenonT(30) DEF ClaimsRun, RecordsInPlace, ReplayIsGenuine
<1>8. CleanIsPending'
  BY <1>1, <1>2, Zenon DEF CleanIsPending, MayWrite, RedisAssumption
<1>9. \A j \in RedisKeys : rec'[j].state = "completed" => rec'[j] = rec[j]
  BY <1>1 DEF Absent
<1>10. AnswersGiven'
  BY <1>2, <1>9, Zenon DEF AnswersGiven
<1> QED BY <1>5, <1>6, <1>7, <1>8, <1>10, Zenon

\* Nobody else has a claim on a key that is free, or pending under a claim.
LEMMA AloneOnFree ==
  ASSUME RedisAssumption, RedisInv, NEW q \in Posts, rec[RedisKey[q]] = Absent \/ claimed[q]
  PROVE  \A p \in Posts \ {q} : RedisKey[p] = RedisKey[q] /\ claimed[p] => overrun[RedisKey[q]]
<1> SUFFICES ASSUME NEW p \in Posts \ {q}, RedisKey[p] = RedisKey[q], claimed[p], ~overrun[RedisKey[q]] PROVE FALSE
  OBVIOUS
<1>1. rec[RedisKey[q]] = [state |-> "pending", by |-> p]
  BY Zenon DEF RedisInv, ClaimsStand
<1>2. rec[RedisKey[q]].state = "pending" /\ rec[RedisKey[q]].by = p
  BY <1>1
<1>3. rec[RedisKey[q]] # Absent
  BY <1>2 DEF Absent
<1>4. rec[RedisKey[q]] = [state |-> "pending", by |-> q]
  BY <1>3, Zenon DEF RedisInv, ClaimsStand
<1> QED BY <1>2, <1>4

\* SETNX, with its answer or without.
LEMMA SetNXKeeps ==
  ASSUME RedisAssumption, RedisInv, NEW q \in Posts, SetNX(q) \/ ClaimFails(q), UNCHANGED overrun
  PROVE  RedisInv'
<1> USE DEF SetNX, ClaimFails, Enter, Free
<1>0. RedisKey[q] \in RedisKeys
  BY Zenon DEF RedisAssumption
<1>1. /\ UNCHANGED <<keep, casTries, given>> /\ place' \in [Posts -> {"claim", "inspect", "answered", "conflict"} \cup AtWork]
      /\ claimed' \in [Posts -> BOOLEAN] /\ errors' \in 0..MaxErrors /\ Others(q)
      /\ place'[q] \in {"working", "inspect"} /\ given[q] = Nobody
      /\ claimed'[q] => claimed[q] \/ SetNX(q)
  <2>1. UNCHANGED <<keep, casTries, given>> /\ given[q] = Nobody
    BY Zenon DEF RedisInv, AnswersGiven
  <2>2. \E to \in {"working", "inspect"} : place' = [place EXCEPT ![q] = to]
    OBVIOUS
  <2>3. /\ claimed' = claimed \/ claimed' = [claimed EXCEPT ![q] = TRUE]
        /\ claimed' # claimed => SetNX(q)
    OBVIOUS
  <2>4. errors' \in 0..MaxErrors
    BY DEF RedisInv, RedisTypeOK, RedisFails, RedisAssumption
  <2>5. /\ place' \in [Posts -> {"claim", "inspect", "answered", "conflict"} \cup AtWork]
        /\ place'[q] \in {"working", "inspect"} /\ \A p \in Posts \ {q} : place'[p] = place[p]
    BY <2>2, Zenon DEF RedisInv, RedisTypeOK, AtWork
  <2>6. /\ claimed' \in [Posts -> BOOLEAN] /\ \A p \in Posts \ {q} : claimed'[p] = claimed[p]
        /\ claimed'[q] => claimed[q] \/ SetNX(q)
    BY <2>3, Zenon DEF RedisInv, RedisTypeOK
  <2> QED BY <2>1, <2>4, <2>5, <2>6, Zenon DEF Others
<1>2. CASE UNCHANGED <<rec, clean>>
  <2>1. RedisTypeOK'
    BY <1>1, <1>2, Zenon DEF RedisInv, RedisTypeOK
  <2>2. ~claimed[q]
    BY Zenon DEF RedisInv, ClaimsRun, AtWork
  <2>3. ~claimed'[q]
    BY <1>0, <1>2, <2>2 DEF RedisInv, RedisTypeOK, Write, Absent
  <2> QED BY <1>1, <1>2, <2>1, <2>3, LocalKeeps, Zenon
<1>3. CASE Free(RedisKey[q]) /\ Write(RedisKey[q], [state |-> "pending", by |-> q])
  <2>1. [state |-> "pending", by |-> q] \in Records
    BY RecordTypes, Zenon
  <2>2. RedisTypeOK'
    BY <1>0, <1>1, <1>3, <2>1, WriteEffect DEF RedisInv, RedisTypeOK
  <2>3. place'[q] = "working"
    BY <1>3, Zenon DEF RedisInv, RedisTypeOK, AtWork
  <2> QED BY <1>1, <1>3, <2>1, <2>2, <2>3, RecordKeeps, AloneOnFree, Zenon DEF AtWork
<1> QED BY <1>2, <1>3, Zenon

\* GET of the claim.
LEMMA InspectKeeps ==
  ASSUME RedisAssumption, RedisInv, NEW q \in Posts, Inspect(q), UNCHANGED overrun
  PROVE  RedisInv'
<1> USE DEF Inspect, Enter
<1> DEFINE k == RedisKey[q]
           f == Found(q, rec[k])
<1>0. k \in RedisKeys /\ ~claimed[q] /\ given[q] = Nobody
  BY Zenon DEF RedisAssumption, RedisInv, ClaimsRun, AtWork, AnswersGiven
<1>1. /\ f \in {"claim", "conflict", "answered"}
      /\ f = "answered" => rec[k].state = "completed" /\ Fingerprint[rec[k].by] = Fingerprint[q]
  BY <1>0, RecordForms, Zenon DEF Found
<1>2. f = "answered" => rec[k].by \in Posts
  BY <1>0, <1>1, RecordForms DEF Absent
<1> HIDE DEF f
<1>3. place' = [place EXCEPT ![q] = f] /\ given' = [given EXCEPT ![q] = IF f = "answered" THEN rec[k].by ELSE @]
  BY Zenon DEF f
<1>4. RedisTypeOK' /\ Others(q)
  BY <1>1, <1>2, <1>3 DEF RedisInv, RedisTypeOK, Others
<1>5. place'[q] = f /\ given'[q] = IF f = "answered" THEN rec[k].by ELSE Nobody
  BY <1>0, <1>3, Zenon DEF RedisInv, RedisTypeOK
<1> HIDE DEF k
<1> QED BY <1>0, <1>1, <1>4, <1>5, LocalKeeps, Zenon DEF k

\* The response.
LEMMA RespondKeeps ==
  ASSUME RedisAssumption, RedisInv, NEW q \in Posts, NEW final \in BOOLEAN, Respond(q, final), UNCHANGED overrun
  PROVE  RedisInv'
<1> USE DEF Respond, Enter
<1> DEFINE to == CASE claimed[q] -> "watch" [] ~claimed[q] /\ final -> "answered" [] OTHER -> "claim"
<1>1. /\ claimed[q] => to = "watch"
      /\ ~claimed[q] => to = IF final THEN "answered" ELSE "claim"
  BY Zenon DEF RedisInv, RedisTypeOK
<1> HIDE DEF to
<1>2. place' = [place EXCEPT ![q] = to] /\ given[q] = Nobody
  BY Zenon DEF to, RedisInv, AnswersGiven
<1>3. errors' \in 0..MaxErrors
  BY DEF RedisFails, RedisInv, RedisTypeOK, RedisAssumption
<1>4. RedisTypeOK' /\ Others(q)
  BY <1>1, <1>2, <1>3 DEF RedisInv, RedisTypeOK, Others, AtWork
<1>5. /\ place'[q] = to /\ keep'[q] = final /\ given'[q] = IF final THEN q ELSE Nobody
      /\ claimed'[q] = claimed[q]
  BY <1>2, Zenon DEF RedisInv, RedisTypeOK
<1> QED BY <1>1, <1>2, <1>4, <1>5, LocalKeeps, Zenon DEF AtWork

\* What ends a handler leaves.
LEMMA FinishedForms ==
  ASSUME RedisAssumption, RedisInv, NEW q \in Posts, place[q] \in {"watch", "get", "exec"}, Finished(q),
         UNCHANGED <<keep, given>>
  PROVE  /\ ~claimed'[q] /\ place'[q] \in {"answered", "claim"}
         /\ place'[q] = "claim" => given'[q] = Nobody
         /\ Others(q)
         /\ place' \in [Posts -> {"claim", "inspect", "answered", "conflict"} \cup AtWork]
         /\ claimed' \in [Posts -> BOOLEAN] /\ casTries' \in [Posts -> 0..(MaxTries - 1)]
BY DEF Finished, Enter, RedisInv, RedisTypeOK, AnswersGiven, Others, RedisAssumption

\* The handler goes away.
LEMMA LeaveKeeps ==
  ASSUME RedisAssumption, RedisInv, NEW q \in Posts, Withdraw(q), UNCHANGED overrun PROVE RedisInv'
<1> USE DEF Withdraw, Enter, RedisFails
<1>1. RedisTypeOK' /\ Others(q)
  BY DEF RedisInv, RedisTypeOK, Others, RedisAssumption
<1>2. ~claimed'[q] /\ place'[q] = (IF given[q] = Nobody THEN "claim" ELSE "answered") /\ given'[q] = given[q]
  BY Zenon DEF RedisInv, RedisTypeOK
<1> QED BY <1>1, <1>2, LocalKeeps

\* WATCH and GET of casPending.
LEMMA WatchKeeps ==
  ASSUME RedisAssumption, RedisInv, NEW q \in Posts, Watch(q), UNCHANGED overrun PROVE RedisInv'
<1> USE DEF Watch, Enter
<1>1. RedisTypeOK' /\ Others(q) /\ \A p \in Posts \ {q} : clean'[p] = clean[p]
  BY Zenon DEF RedisInv, RedisTypeOK, Others, AtWork
<1>2. claimed[q] /\ given[q] = IF keep[q] THEN q ELSE Nobody
  BY Zenon DEF RedisInv, ClaimsRun, AnswersGiven
<1>3. place'[q] = "get"
  BY Zenon DEF RedisInv, RedisTypeOK
<1> QED BY <1>1, <1>2, <1>3, LocalKeeps, Zenon DEF AtWork

LEMMA GetKeeps ==
  ASSUME RedisAssumption, RedisInv, NEW q \in Posts, Get(q), UNCHANGED overrun PROVE RedisInv'
<1> USE DEF Get
<1>1. CASE MayWrite(q, rec[RedisKey[q]])
  <2>1. Enter(q, "exec") /\ UNCHANGED <<claimed, casTries>>
    BY <1>1, Zenon
  <2>2. RedisTypeOK' /\ Others(q) /\ place'[q] = "exec"
    BY <2>1, Zenon DEF Enter, RedisInv, RedisTypeOK, Others, AtWork
  <2>3. claimed[q] /\ given[q] = IF keep[q] THEN q ELSE Nobody
    BY Zenon DEF RedisInv, ClaimsRun, AnswersGiven
  <2> QED BY <1>1, <2>1, <2>2, <2>3, LocalKeeps, Zenon DEF AtWork
<1>2. CASE ~MayWrite(q, rec[RedisKey[q]])
  <2>1. RedisTypeOK'
    BY <1>2, FinishedForms, Zenon DEF RedisInv, RedisTypeOK
  <2> QED BY <1>2, <2>1, FinishedForms, LocalKeeps, Zenon
<1> QED BY <1>1, <1>2, Zenon

\* What EXEC writes.
Effect(q) == IF keep[q] THEN [state |-> "completed", by |-> q] ELSE Absent

\* EXEC is carried out, with its answer or without.
LEMMA ExecutedKeeps ==
  ASSUME RedisAssumption, RedisInv, NEW q \in Posts, place[q] = "exec", Executes(q),
         Write(RedisKey[q], Effect(q)), Finished(q), UNCHANGED <<keep, given, overrun>>, errors' \in 0..MaxErrors
  PROVE  RedisInv'
<1>0. RedisKey[q] \in RedisKeys
  BY Zenon DEF RedisAssumption
<1>1. claimed[q] /\ (keep[q] => given[q] = q)
  BY Zenon DEF RedisInv, ClaimsRun, AnswersGiven
<1>2. /\ Effect(q) \in Records
      /\ Effect(q) # Absent => Effect(q).by = q
      /\ Effect(q).state = "completed" => given[q] = q
  BY <1>1, RecordTypes, Zenon DEF Effect, Absent
<1>3. RedisTypeOK'
  BY <1>0, <1>2, FinishedForms, WriteEffect, Zenon DEF RedisInv, RedisTypeOK
<1>4. \A p \in Posts \ {q} : RedisKey[p] = RedisKey[q] /\ claimed[p] => overrun[RedisKey[q]]
  BY <1>1, AloneOnFree, Zenon
<1>5. /\ ~claimed'[q] /\ place'[q] \in {"answered", "claim"} /\ Others(q)
      /\ place'[q] = "claim" => given[q] = Nobody
  BY FinishedForms, Zenon
<1> QED BY <1>2, <1>3, <1>4, <1>5, RecordKeeps, Zenon

\* The transaction ends without an effect.
LEMMA UnexecutedKeeps ==
  ASSUME RedisAssumption, RedisInv, NEW q \in Posts, place[q] \in {"watch", "get", "exec"},
         Finished(q), UNCHANGED <<rec, clean, keep, given, overrun>>, errors' \in 0..MaxErrors
  PROVE  RedisInv'
<1>1. RedisTypeOK'
  BY FinishedForms, Zenon DEF RedisInv, RedisTypeOK
<1> QED BY <1>1, FinishedForms, LocalKeeps, Zenon

LEMMA ExecKeeps ==
  ASSUME RedisAssumption, RedisInv, NEW q \in Posts, Exec(q), UNCHANGED overrun PROVE RedisInv'
<1> USE DEF Exec
<1>0. errors' \in 0..MaxErrors
  BY Zenon DEF RedisInv, RedisTypeOK
<1>1. CASE Executes(q)
  BY <1>0, <1>1, ExecutedKeeps, Zenon DEF Effect
<1>2. CASE ~Executes(q) /\ TriesLeft(q)
  <2>1. /\ casTries' = [casTries EXCEPT ![q] = @ + 1] /\ Enter(q, "watch")
        /\ UNCHANGED <<rec, clean, claimed, keep, given>>
    BY <1>2, Zenon
  <2>2. casTries' \in [Posts -> 0..(MaxTries - 1)]
    BY <1>2, <2>1 DEF TriesLeft, RedisInv, RedisTypeOK, RedisAssumption
  <2>3. RedisTypeOK' /\ Others(q) /\ place'[q] = "watch"
    BY <1>0, <2>1, <2>2, Zenon DEF Enter, RedisInv, RedisTypeOK, Others, AtWork
  <2>4. claimed[q] /\ given[q] = IF keep[q] THEN q ELSE Nobody
    BY Zenon DEF RedisInv, ClaimsRun, AnswersGiven
  <2> QED BY <2>1, <2>3, <2>4, LocalKeeps, Zenon DEF AtWork
<1>3. CASE ~Executes(q) /\ ~TriesLeft(q)
  BY <1>0, <1>3, UnexecutedKeeps, Zenon
<1> QED BY <1>1, <1>2, <1>3, Zenon

LEMMA CASFailsKeeps ==
  ASSUME RedisAssumption, RedisInv, NEW q \in Posts, CASFails(q), UNCHANGED overrun PROVE RedisInv'
<1> USE DEF CASFails
<1>0. errors' \in 0..MaxErrors
  BY DEF RedisFails, RedisInv, RedisTypeOK, RedisAssumption
<1>1. CASE UNCHANGED <<rec, clean>>
  BY <1>0, <1>1, UnexecutedKeeps, Zenon
<1>2. CASE place[q] = "exec" /\ Executes(q) /\ Write(RedisKey[q], Effect(q))
  BY <1>0, <1>2, ExecutedKeeps, Zenon
<1> QED BY <1>1, <1>2, Zenon DEF Effect

\* Every step preserves the invariant.
LEMMA RedisStep == ASSUME RedisAssumption, RedisInv, [RedisNext]_redisVars PROVE RedisInv'
<1>1. CASE UNCHANGED redisVars
  BY <1>1, Zenon
     DEF redisVars, RedisInv, RedisTypeOK, ClaimsRun, ClaimsStand, CleanIsPending, MayWrite,
              RecordsInPlace, AnswersGiven, ReplayIsGenuine
<1> QED BY <1>1, SetNXKeeps, InspectKeeps, RespondKeeps, LeaveKeeps, WatchKeeps, GetKeeps, ExecKeeps,
           CASFailsKeeps, RecordExpires, Zenon DEF RedisNext, RequestStep

\* The invariant holds in every reachable state.
LEMMA RedisInvariance == ASSUME RedisAssumption PROVE RedisSpec => []RedisInv
<1>1. RedisInit => RedisInv
  <2> SUFFICES ASSUME RedisInit PROVE RedisInv
    OBVIOUS
  <2>1. RedisTypeOK
    BY DEF RedisInit, RedisTypeOK, Records, RedisAssumption
  <2>2. ClaimsRun /\ ClaimsStand /\ CleanIsPending /\ RecordsInPlace /\ ReplayIsGenuine
    BY Zenon
       DEF RedisInit, ClaimsRun, ClaimsStand, CleanIsPending, RecordsInPlace, ReplayIsGenuine
  <2>3. AnswersGiven
    BY Zenon DEF RedisInit, AnswersGiven, Absent
  <2> QED BY <2>1, <2>2, <2>3, Zenon DEF RedisInv
<1> QED BY <1>1, RedisStep, PTL DEF RedisSpec

\* A request's own step never touches a completed record.
LEMMA CompletedKept ==
  ASSUME RedisAssumption, RedisInv, NEW q \in Posts, RequestStep(q), NEW k \in RedisKeys, rec[k].state = "completed"
  PROVE  rec'[k] = rec[k]
<1>1. CASE \E r : Write(RedisKey[q], r) /\ (Free(RedisKey[q]) \/ (place[q] = "exec" /\ Executes(q)))
  <2>1. k # RedisKey[q]
    <3>1. CASE Free(RedisKey[q])
      BY <3>1 DEF Free, Absent
    <3>2. CASE place[q] = "exec" /\ Executes(q)
      <4>1. MayWrite(q, rec[RedisKey[q]])
        BY <3>2, Zenon DEF Executes, RedisInv, CleanIsPending
      <4> QED BY <4>1, Zenon DEF MayWrite
    <3> QED BY <1>1, <3>1, <3>2, Zenon
  <2>2. RedisKey[q] \in RedisKeys
    BY Zenon DEF RedisAssumption
  <2> QED BY <1>1, <2>1, <2>2, WriteEffect, Zenon
<1>2. CASE UNCHANGED rec
  BY <1>2, Zenon
<1> QED BY <1>1, <1>2, Zenon
           DEF RequestStep, SetNX, Inspect, ClaimFails, Respond, Withdraw, Watch, Get, Exec, CASFails

\* A claim is exclusive until its pending TTL is outlived, a replayed response is
\* genuine, and a completed record stays until its TTL, for any number of keys,
\* requests, tries and errors (redis.go).
THEOREM RedisTheorem == ASSUME RedisAssumption PROVE RedisSpec => RedisClaimsHold
<1>1. RedisInv => ClaimIsExclusive /\ ReplayIsGenuine
  BY Zenon DEF RedisInv, ClaimsStand, ClaimIsExclusive
<1>2. RedisInv /\ [RedisNext]_redisVars =>
        [\A k \in RedisKeys : rec[k].state = "completed" /\ rec'[k] # rec[k] =>
           rec'[k] = Absent /\ UNCHANGED <<place, casTries>>]_redisVars
  <2> SUFFICES ASSUME RedisInv, RedisNext, NEW k \in RedisKeys, rec[k].state = "completed", rec'[k] # rec[k]
               PROVE  rec'[k] = Absent /\ UNCHANGED <<place, casTries>>
    OBVIOUS
  <2>1. PICK j \in RedisKeys : ExpirePending(j) \/ ExpireCompleted(j)
    BY CompletedKept, Zenon DEF RedisNext
  <2> QED BY <2>1, WriteEffect, Zenon DEF ExpirePending, ExpireCompleted
<1> QED BY <1>1, <1>2, RedisInvariance, PTL
           DEF RedisSpec, RedisClaimsHold, CompletedStays
=============================================================================
