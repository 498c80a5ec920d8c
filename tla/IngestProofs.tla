---------------------------- MODULE IngestProofs ----------------------------
(* Proofs about Ingest, and about Webhook, for any deliveries, sheets, rows *)
(* and workers.                                                             *)
EXTENDS Webhook, TLAPS

(* What a transaction holds shows in where its delivery stands.             *)
Inserted(d) == [sheets |-> {SheetOf[d]}, rows |-> {}, audit |-> {}]
Complete(d) ==
    [sheets |-> {SheetOf[d]}, rows |-> RowsOf[SheetOf[d]], audit |-> {SheetOf[d]}]

OpenAgrees ==
    \A d \in Deliveries :
        open[d] = CASE pc[d] = "audit"  -> Inserted(d)
                    [] pc[d] = "commit" -> Complete(d)
                    [] pc[d] \in {"doubt", "gone"} ->
                          IF open[d] = Nothing THEN Nothing ELSE Complete(d)
                    [] OTHER            -> Nothing

(* What is stored was stored by a delivery that committed.                  *)
StoredAgrees ==
    /\ \A e \in stored : e[1] = SheetOf[e[2]] /\ pc[e[2]] \in {"201", "doubt", "gone"}
    /\ \A d \in Deliveries :
          /\ pc[d] = "201" => <<SheetOf[d], d>> \in stored
          /\ pc[d] = "409" => SheetOf[d] \in Known

(* A sheet has one place: in one transaction or in the table, once.         *)
OnePlace ==
    /\ \A d, o \in Deliveries :
          open[d].sheets \cap open[o].sheets # {} => d = o
    /\ \A d \in Deliveries : open[d].sheets \cap Known = {}
    /\ StoredOnce

IngestInv ==
    /\ TypeOK
    /\ OpenAgrees
    /\ StoredAgrees
    /\ OnePlace

----------------------------------------------------------------------------
LEMMA TransactionTypes ==
    ASSUME NEW d \in Deliveries
    PROVE  /\ Nothing \in Transaction
           /\ Nothing.sheets = {} /\ Nothing.rows = {} /\ Nothing.audit = {}
           /\ Inserted(d) \in Transaction
           /\ Inserted(d).sheets = {SheetOf[d]}
           /\ Inserted(d).rows = {} /\ Inserted(d).audit = {}
           /\ Complete(d) \in Transaction
           /\ Complete(d).sheets = {SheetOf[d]}
           /\ Complete(d).rows = RowsOf[SheetOf[d]] /\ Complete(d).audit = {SheetOf[d]}
BY SheetOfType DEF Nothing, Inserted, Complete, Transaction, Competitors

LEMMA IngestInit == Init => IngestInv
<1> SUFFICES ASSUME Init PROVE IngestInv
    OBVIOUS
<1>1. TypeOK
      BY TransactionTypes DEF Init, TypeOK
<1>2. OpenAgrees
      BY DEF Init, OpenAgrees
<1>3. StoredAgrees
      BY DEF Init, StoredAgrees
<1>4. OnePlace
      BY TransactionTypes DEF Init, OnePlace, StoredOnce, Known
<1> QED BY <1>1, <1>2, <1>3, <1>4 DEF IngestInv

(* The three things a step may do to the transaction of a delivery.         *)
Sets(d, x) == open' = [open EXCEPT ![d] = x]

LEMMA OpenSteps ==
    ASSUME IngestInv, NEW d \in Deliveries
    PROVE  /\ Insert(d) => IF SheetOf[d] \in Known THEN open' = open
                                                   ELSE Sets(d, Inserted(d))
           /\ Audit(d) => Sets(d, Complete(d))
           /\ Commit(d) \/ Settle(d) => open[d] = Complete(d) /\ Sets(d, Nothing)
<1> USE DEF IngestInv, OpenAgrees, Sets
<1>1. ASSUME Insert(d)
      PROVE  IF SheetOf[d] \in Known THEN open' = open ELSE Sets(d, Inserted(d))
  <2>1. open[d] = Nothing
        BY <1>1 DEF Insert
  <2>2. [Nothing EXCEPT !.sheets = {SheetOf[d]}] = Inserted(d)
        BY DEF Nothing, Inserted
  <2> QED BY <1>1, <2>1, <2>2 DEF Insert
<1>2. ASSUME Audit(d) PROVE Sets(d, Complete(d))
  <2>1. open[d] = Inserted(d)
        BY <1>2 DEF Audit
  <2>2. [Inserted(d) EXCEPT !.rows = RowsOf[SheetOf[d]], !.audit = {SheetOf[d]}] = Complete(d)
    <3> DEFINE half == [sheets |-> {SheetOf[d]}, rows |-> RowsOf[SheetOf[d]], audit |-> {}]
    <3>1. [Inserted(d) EXCEPT !.rows = RowsOf[SheetOf[d]]] = half
          BY DEF Inserted
    <3>2. [half EXCEPT !.audit = {SheetOf[d]}] = Complete(d)
          BY DEF Complete
    <3>3. [Inserted(d) EXCEPT !.rows = RowsOf[SheetOf[d]], !.audit = {SheetOf[d]}]
             = [[Inserted(d) EXCEPT !.rows = RowsOf[SheetOf[d]]] EXCEPT !.audit = {SheetOf[d]}]
          OBVIOUS
    <3> HIDE DEF half
    <3> QED BY <3>1, <3>2, <3>3
  <2>3. open' = [open EXCEPT ![d] =
                    [open[d] EXCEPT !.rows = RowsOf[SheetOf[d]], !.audit = {SheetOf[d]}]]
        BY <1>2 DEF Audit, TypeOK, Transaction
  <2> QED BY <2>1, <2>2, <2>3
<1>3. ASSUME Commit(d) PROVE open[d] = Complete(d) /\ Sets(d, Nothing)
      BY <1>3 DEF Commit
<1>4. ASSUME Settle(d) PROVE open[d] = Complete(d) /\ Sets(d, Nothing)
      BY <1>4 DEF Settle
<1> QED BY <1>1, <1>2, <1>3, <1>4

(* Who is cut off is rolled back or left to the database.                   *)
CutOff(D, end) ==
    /\ D \subseteq {d \in Deliveries : pc[d] \in Awaiting}
    /\ end \in {"500", "doubt", "gone"}
    /\ end = "500" => \A d \in D : pc[d] # "commit"
    /\ Interrupt(D, end)

LEMMA CutsOff ==
    /\ \A d \in Deliveries : Fail(d) =>
          CutOff({d}, IF pc[d] = "commit" THEN "doubt" ELSE "500")
    /\ \A D \in SUBSET {d \in Deliveries : pc[d] \in Awaiting} :
          Vanish(D) => CutOff(D, "gone")
BY DEF Fail, Vanish, CutOff

LEMMA CutSteps ==
    ASSUME IngestInv, NEW D, NEW end, CutOff(D, end), NEW o \in Deliveries
    PROVE  /\ o \notin D => pc'[o] = pc[o] /\ open'[o] = open[o]
           /\ o \in D => pc'[o] = end /\ pc[o] \in Awaiting
           /\ end \in {"500", "doubt", "gone"}
           /\ o \in D /\ pc[o] = "commit" => open'[o] = open[o] /\ end # "500"
           /\ o \in D /\ pc[o] # "commit" => open'[o] = Nothing
           /\ DOMAIN pc' = Deliveries /\ DOMAIN open' = Deliveries
           /\ UNCHANGED tables
BY DEF CutOff, Interrupt

(* Whatever a transaction is set to is of its type.                         *)
OpenTyped ==
    /\ open \in [Deliveries -> Transaction]
    /\ \A d \in Deliveries :
          /\ open[d].sheets \subseteq {SheetOf[d]}
          /\ open[d].rows \subseteq RowsOf[SheetOf[d]]
          /\ open[d].audit \subseteq {SheetOf[d]}

LEMMA SetTyped ==
    ASSUME OpenTyped, NEW d \in Deliveries,
           NEW x \in {Nothing, Inserted(d), Complete(d)}, Sets(d, x)
    PROVE  OpenTyped'
<1>1. /\ x \in Transaction /\ x.sheets \subseteq {SheetOf[d]}
      /\ x.rows \subseteq RowsOf[SheetOf[d]] /\ x.audit \subseteq {SheetOf[d]}
      BY TransactionTypes
<1> QED BY <1>1 DEF OpenTyped, Sets

(* A commit that is carried out adds the sheet with everything in it.       *)
LEMMA PublishWhole ==
    ASSUME NEW d \in Deliveries, open[d] = Complete(d), Publish(d)
    PROVE  /\ stored'      = stored \cup {<<SheetOf[d], d>>}
           /\ competitors' = competitors \cup (RowsOf[SheetOf[d]] \X {d})
           /\ audited'     = audited \cup {<<SheetOf[d], d>>}
           /\ Known'       = Known \cup {SheetOf[d]}
<1>1. {SheetOf[d]} \X {d} = {<<SheetOf[d], d>>}
      OBVIOUS
<1>2. /\ stored'      = stored \cup {<<SheetOf[d], d>>}
      /\ competitors' = competitors \cup (RowsOf[SheetOf[d]] \X {d})
      /\ audited'     = audited \cup {<<SheetOf[d], d>>}
      BY <1>1 DEF Publish, Complete
<1>3. <<SheetOf[d], d>>[1] = SheetOf[d]
      OBVIOUS
<1> QED BY <1>2, <1>3 DEF Known

LEMMA TypeStep == IngestInv /\ [Next]_vars => TypeOK'
<1> SUFFICES ASSUME IngestInv, [Next]_vars PROVE TypeOK'
    OBVIOUS
<1>0. OpenTyped /\ (open' = open => OpenTyped')
      BY DEF IngestInv, TypeOK, OpenTyped
<1>a. ASSUME NEW d \in Deliveries, Publish(d), open[d] = Complete(d)
      PROVE  /\ stored' \subseteq Sheets \X Deliveries
             /\ competitors' \subseteq Competitors \X Deliveries
             /\ audited' \subseteq Sheets \X Deliveries
      BY <1>a, PublishWhole, SheetOfType DEF IngestInv, TypeOK, Competitors
<1> USE DEF Goto, Awaiting, Final, tables
<1>1. ASSUME NEW d \in Deliveries, Receive(d) PROVE TypeOK'
      BY <1>1 DEF Receive, IngestInv, TypeOK
<1>2. ASSUME NEW d \in Deliveries, Select(d) PROVE TypeOK'
      BY <1>2 DEF Select, IngestInv, TypeOK
<1>3. ASSUME NEW d \in Deliveries, Insert(d) PROVE TypeOK'
  <2>1. OpenTyped'
        BY <1>0, <1>3, OpenSteps, SetTyped
  <2> QED BY <1>3, <2>1 DEF Insert, IngestInv, TypeOK, OpenTyped
<1>4. ASSUME NEW d \in Deliveries, Audit(d) PROVE TypeOK'
  <2>1. OpenTyped'
        BY <1>0, <1>4, OpenSteps, SetTyped
  <2> QED BY <1>4, <2>1 DEF Audit, IngestInv, TypeOK, OpenTyped
<1>5. ASSUME NEW d \in Deliveries, Commit(d) PROVE TypeOK'
  <2>1. OpenTyped' /\ open[d] = Complete(d)
        BY <1>0, <1>5, OpenSteps, SetTyped
  <2> QED BY <1>5, <1>a, <2>1 DEF Commit, IngestInv, TypeOK, OpenTyped
<1>6. ASSUME NEW D, NEW end, CutOff(D, end) PROVE TypeOK'
  <2>1. \A o \in Deliveries :
           /\ pc'[o] \in {"new"} \cup Awaiting \cup Final
           /\ open'[o] = open[o] \/ open'[o] = Nothing
        BY <1>6, CutSteps DEF IngestInv, TypeOK
  <2>2. pc' \in [Deliveries -> {"new"} \cup Awaiting \cup Final]
        BY <1>6, <2>1 DEF CutOff, Interrupt
  <2>3. \A o \in Deliveries :
           /\ open'[o] \in Transaction /\ open'[o].sheets \subseteq {SheetOf[o]}
           /\ open'[o].rows \subseteq RowsOf[SheetOf[o]]
           /\ open'[o].audit \subseteq {SheetOf[o]}
        BY <1>0, <2>1, TransactionTypes DEF OpenTyped
  <2>4. open' \in [Deliveries -> Transaction]
        BY <1>6, <2>3 DEF CutOff, Interrupt
  <2> QED BY <1>6, <2>2, <2>3, <2>4 DEF CutOff, Interrupt, IngestInv, TypeOK
<1>7. ASSUME NEW d \in Deliveries, Settle(d) PROVE TypeOK'
  <2>1. OpenTyped' /\ open[d] = Complete(d)
        BY <1>0, <1>7, OpenSteps, SetTyped
  <2> QED BY <1>7, <1>a, <2>1 DEF Settle, IngestInv, TypeOK, OpenTyped
<1>8. CASE UNCHANGED vars
      BY <1>8 DEF vars, IngestInv, TypeOK
<1> QED BY <1>1, <1>2, <1>3, <1>4, <1>5, <1>6, <1>7, <1>8, CutsOff DEF Next

(* Open transactions.                                                       *)
LEMMA OpenStep == IngestInv /\ [Next]_vars => OpenAgrees'
<1> SUFFICES ASSUME IngestInv, [Next]_vars PROVE OpenAgrees'
    OBVIOUS
<1> USE DEF Goto
<1>0. IngestInv => OpenAgrees /\ pc \in [Deliveries -> {"new"} \cup Awaiting \cup Final]
                  /\ open \in [Deliveries -> Transaction]
      BY DEF IngestInv, TypeOK
<1>1. ASSUME NEW d \in Deliveries, Receive(d) PROVE OpenAgrees'
      BY <1>0, <1>1 DEF Receive, OpenAgrees
<1>2. ASSUME NEW d \in Deliveries, Select(d) PROVE OpenAgrees'
      BY <1>0, <1>2 DEF Select, OpenAgrees
<1>3. ASSUME NEW d \in Deliveries, Insert(d) PROVE OpenAgrees'
      BY <1>0, <1>3, OpenSteps DEF Insert, OpenAgrees, Sets
<1>4. ASSUME NEW d \in Deliveries, Audit(d) PROVE OpenAgrees'
      BY <1>0, <1>4, OpenSteps DEF Audit, OpenAgrees, Sets
<1>5. ASSUME NEW d \in Deliveries, Commit(d) PROVE OpenAgrees'
      BY <1>0, <1>5, OpenSteps DEF Commit, OpenAgrees, Sets
<1>6. ASSUME NEW D, NEW end, CutOff(D, end) PROVE OpenAgrees'
  <2>1. ASSUME NEW o \in Deliveries, o \notin D
        PROVE  pc'[o] = pc[o] /\ open'[o] = open[o]
        BY <1>6, <2>1, CutSteps
  <2>2. ASSUME NEW o \in Deliveries, o \in D, pc[o] = "commit"
        PROVE  pc'[o] \in {"doubt", "gone"} /\ open'[o] = Complete(o)
        BY <1>0, <1>6, <2>2, CutSteps DEF OpenAgrees, CutOff
  <2>3. ASSUME NEW o \in Deliveries, o \in D, pc[o] # "commit"
        PROVE  pc'[o] \in {"500", "doubt", "gone"} /\ open'[o] = Nothing
        BY <1>6, <2>3, CutSteps DEF CutOff
  <2> QED BY <1>0, <2>1, <2>2, <2>3 DEF OpenAgrees
<1>7. ASSUME NEW d \in Deliveries, Settle(d) PROVE OpenAgrees'
      BY <1>0, <1>7, OpenSteps DEF Settle, OpenAgrees, Sets
<1>8. CASE UNCHANGED vars
      BY <1>0, <1>8 DEF vars, OpenAgrees
<1> QED BY <1>1, <1>2, <1>3, <1>4, <1>5, <1>6, <1>7, <1>8, CutsOff DEF Next

(* What is stored, and the answers that say so.                             *)
LEMMA StoredStep == IngestInv /\ [Next]_vars => StoredAgrees'
<1> SUFFICES ASSUME IngestInv, [Next]_vars PROVE StoredAgrees'
    OBVIOUS
<1> USE DEF Goto, tables
<1>0. IngestInv => StoredAgrees /\ pc \in [Deliveries -> {"new"} \cup Awaiting \cup Final]
                  /\ stored \subseteq Sheets \X Deliveries
      BY DEF IngestInv, TypeOK
<1>1. ASSUME NEW d \in Deliveries, Receive(d) PROVE StoredAgrees'
      BY <1>0, <1>1 DEF Receive, StoredAgrees, Known
<1>2. ASSUME NEW d \in Deliveries, Select(d) PROVE StoredAgrees'
      BY <1>0, <1>2 DEF Select, StoredAgrees, Known
<1>3. ASSUME NEW d \in Deliveries, Insert(d) PROVE StoredAgrees'
      BY <1>0, <1>3 DEF Insert, StoredAgrees, Known
<1>4. ASSUME NEW d \in Deliveries, Audit(d) PROVE StoredAgrees'
      BY <1>0, <1>4 DEF Audit, StoredAgrees, Known
<1>5. ASSUME NEW d \in Deliveries, Commit(d) PROVE StoredAgrees'
  <2>1. stored' = stored \cup {<<SheetOf[d], d>>} /\ Known' = Known \cup {SheetOf[d]}
        BY <1>5, OpenSteps, PublishWhole DEF Commit
  <2>2. pc' = [pc EXCEPT ![d] = "201"]
        BY <1>5 DEF Commit
  <2>3. \A e \in stored' : e[1] = SheetOf[e[2]] /\ pc'[e[2]] \in {"201", "doubt", "gone"}
        BY <1>0, <2>1, <2>2 DEF StoredAgrees
  <2>4. \A o \in Deliveries :
           /\ pc'[o] = "201" => <<SheetOf[o], o>> \in stored'
           /\ pc'[o] = "409" => SheetOf[o] \in Known'
        BY <1>0, <2>1, <2>2 DEF StoredAgrees
  <2> QED BY <2>3, <2>4 DEF StoredAgrees
<1>6. ASSUME NEW D, NEW end, CutOff(D, end) PROVE StoredAgrees'
  <2>1. stored' = stored /\ Known' = Known
        BY <1>6 DEF CutOff, Interrupt, Known
  <2>2. \A o \in Deliveries :
           \/ pc'[o] = pc[o]
           \/ pc[o] \in Awaiting /\ pc'[o] \in {"500", "doubt", "gone"}
        BY <1>6, CutSteps DEF CutOff
  <2> QED BY <1>0, <2>1, <2>2 DEF StoredAgrees, Awaiting
<1>7. ASSUME NEW d \in Deliveries, Settle(d) PROVE StoredAgrees'
  <2>1. CASE UNCHANGED tables
        BY <1>0, <1>7, <2>1 DEF Settle, StoredAgrees, Known
  <2>2. CASE Publish(d)
    <3>1. stored' = stored \cup {<<SheetOf[d], d>>} /\ Known' = Known \cup {SheetOf[d]}
          BY <1>7, <2>2, OpenSteps, PublishWhole
    <3>2. pc' = pc /\ pc[d] \in {"doubt", "gone"}
          BY <1>7 DEF Settle
    <3>3. \A e \in stored' : e[1] = SheetOf[e[2]] /\ pc'[e[2]] \in {"201", "doubt", "gone"}
          BY <1>0, <3>1, <3>2 DEF StoredAgrees
    <3>4. \A o \in Deliveries :
             /\ pc'[o] = "201" => <<SheetOf[o], o>> \in stored'
             /\ pc'[o] = "409" => SheetOf[o] \in Known'
          BY <1>0, <3>1, <3>2 DEF StoredAgrees
    <3> QED BY <3>3, <3>4 DEF StoredAgrees
  <2> QED BY <1>7, <2>1, <2>2 DEF Settle
<1>8. CASE UNCHANGED vars
      BY <1>0, <1>8 DEF vars, StoredAgrees, Known
<1> QED BY <1>1, <1>2, <1>3, <1>4, <1>5, <1>6, <1>7, <1>8, CutsOff DEF Next

(* Each sheet has its one place.                                            *)
LEMMA PlaceStep == IngestInv /\ [Next]_vars => OnePlace'
<1> SUFFICES ASSUME IngestInv, [Next]_vars PROVE OnePlace'
    OBVIOUS
<1> USE DEF tables
<1>0. OnePlace /\ open \in [Deliveries -> Transaction]
      BY DEF IngestInv, TypeOK
<1>a. ASSUME NEW d \in Deliveries, Commit(d) \/ Settle(d), Publish(d) PROVE OnePlace'
  <2>1. open[d].sheets = {SheetOf[d]} /\ Sets(d, Nothing)
        BY <1>a, OpenSteps, TransactionTypes
  <2>2. stored' = stored \cup {<<SheetOf[d], d>>} /\ Known' = Known \cup {SheetOf[d]}
        BY <1>a, OpenSteps, PublishWhole
  <2>3. /\ open'[d].sheets = {}
        /\ \A o \in Deliveries \ {d} :
              open'[o].sheets = open[o].sheets /\ SheetOf[d] \notin open[o].sheets
        BY <1>0, <2>1, TransactionTypes DEF Sets, OnePlace
  <2>4. \A e \in stored : e[1] # SheetOf[d]
        BY <1>0, <2>1 DEF OnePlace, Known
  <2>5. StoredOnce'
        BY <1>0, <2>2, <2>4 DEF OnePlace, StoredOnce
  <2>6. \A o \in Deliveries : open'[o].sheets \cap Known' = {}
        BY <1>0, <2>2, <2>3 DEF OnePlace
  <2>7. \A p, o \in Deliveries : open'[p].sheets \cap open'[o].sheets # {} => p = o
        BY <1>0, <2>3 DEF OnePlace
  <2> QED BY <2>5, <2>6, <2>7 DEF OnePlace
<1>1. ASSUME NEW d \in Deliveries, Receive(d) PROVE OnePlace'
      BY <1>0, <1>1 DEF Receive, OnePlace, StoredOnce, Known
<1>2. ASSUME NEW d \in Deliveries, Select(d) PROVE OnePlace'
      BY <1>0, <1>2 DEF Select, OnePlace, StoredOnce, Known
<1>3. ASSUME NEW d \in Deliveries, Insert(d) PROVE OnePlace'
      BY <1>0, <1>3, OpenSteps, TransactionTypes DEF Insert, OnePlace, StoredOnce, Known, Sets, Waits
<1>4. ASSUME NEW d \in Deliveries, Audit(d) PROVE OnePlace'
  <2>1. open[d].sheets = {SheetOf[d]}
        BY <1>4, TransactionTypes DEF Audit, IngestInv, OpenAgrees
  <2>a. open' = [open EXCEPT ![d] = Complete(d)]
        BY <1>4, OpenSteps DEF Sets
  <2>b. Complete(d).sheets = {SheetOf[d]}
        BY DEF Complete
  <2>2. \A o \in Deliveries : open'[o].sheets = open[o].sheets
        BY <1>0, <2>1, <2>a, <2>b
  <2> QED BY <1>0, <1>4, <2>2 DEF Audit, OnePlace, StoredOnce, Known
<1>5. ASSUME NEW d \in Deliveries, Commit(d) PROVE OnePlace'
      BY <1>a, <1>5 DEF Commit
<1>6. ASSUME NEW D, NEW end, CutOff(D, end) PROVE OnePlace'
  <2>1. \A o \in Deliveries : open'[o].sheets \subseteq open[o].sheets
        BY <1>6, CutSteps, TransactionTypes
  <2>2. stored' = stored /\ Known' = Known
        BY <1>6 DEF CutOff, Interrupt, Known
  <2> QED BY <1>0, <2>1, <2>2 DEF OnePlace, StoredOnce
<1>7. ASSUME NEW d \in Deliveries, Settle(d) PROVE OnePlace'
  <2>1. CASE UNCHANGED tables
        BY <1>0, <1>7, <2>1, OpenSteps, TransactionTypes DEF OnePlace, StoredOnce, Known, Sets
  <2> QED BY <1>a, <1>7, <2>1 DEF Settle
<1>8. CASE UNCHANGED vars
      BY <1>0, <1>8 DEF vars, OnePlace, StoredOnce, Known
<1> QED BY <1>1, <1>2, <1>3, <1>4, <1>5, <1>6, <1>7, <1>8, CutsOff DEF Next

LEMMA IngestInvariant == Spec => []IngestInv
<1>1. IngestInv /\ [Next]_vars => IngestInv'
      BY TypeStep, OpenStep, StoredStep, PlaceStep DEF IngestInv
<1> QED BY IngestInit, <1>1, PTL DEF Spec

----------------------------------------------------------------------------
(* Every variable keeps to its type.                                        *)
THEOREM TypeCorrect == Spec => []TypeOK
<1>1. IngestInv => TypeOK
      BY DEF IngestInv
<1> QED BY <1>1, IngestInvariant, PTL

(* However many deliveries of a sheet overlap, fail or are repeated, it is  *)
(* stored at most once.                                                     *)
THEOREM SheetsAreStoredOnce == Spec => []StoredOnce
<1>1. IngestInv => StoredOnce
      BY DEF IngestInv, OnePlace
<1> QED BY <1>1, IngestInvariant, PTL

(* What n8n may conclude from an answer of ingest_spreadsheet, whatever the *)
(* other deliveries do before it and after it: 201, 409, 400 and 401 mean   *)
(* what they say; 500 means that this delivery stored nothing, but not when *)
(* its COMMIT raised.                                                       *)
THEOREM AnswersStayTrue == Spec => []AnswersAreTrue
<1>1. ASSUME IngestInv, NEW d \in Deliveries, pc[d] \in {"refused", "409", "500"}
      PROVE  StoresNothing(d)
      BY <1>1 DEF IngestInv, StoredAgrees, OpenAgrees, StoresNothing
<1>2. IngestInv => AnswersAreTrue
      BY <1>1 DEF IngestInv, StoredAgrees, AnswersAreTrue, Reply
<1> QED BY <1>2, IngestInvariant, PTL

(* No step shows a part of a sheet.                                         *)
THEOREM SheetsAreAtomic == Spec => SheetsArriveWhole
<1> DEFINE Whole(d) ==
       /\ stored'      = stored \cup {<<SheetOf[d], d>>}
       /\ competitors' = competitors \cup (RowsOf[SheetOf[d]] \X {d})
       /\ audited'     = audited \cup {<<SheetOf[d], d>>}
<1>1. ASSUME IngestInv, NEW d \in Deliveries, Commit(d) PROVE Whole(d)
      BY <1>1, OpenSteps, PublishWhole DEF Commit
<1>2. ASSUME IngestInv, NEW d \in Deliveries, Settle(d) PROVE Whole(d) \/ UNCHANGED tables
      BY <1>2, OpenSteps, PublishWhole DEF Settle
<1>3. ASSUME NEW d \in Deliveries,
             Receive(d) \/ Select(d) \/ Insert(d) \/ Audit(d)
      PROVE  UNCHANGED tables
      BY <1>3 DEF Receive, Select, Insert, Audit, tables
<1>a. ASSUME NEW D, NEW end, CutOff(D, end) PROVE UNCHANGED tables
      BY <1>a DEF CutOff, Interrupt
<1>4. IngestInv /\ [Next]_vars => UNCHANGED tables \/ \E d \in Deliveries : Whole(d)
      BY <1>1, <1>2, <1>3, <1>a, CutsOff DEF Next, vars, tables
<1>5. IngestInv /\ [Next]_vars =>
         [UNCHANGED tables \/ \E d \in Deliveries : Whole(d)]_vars
      BY <1>4
<1> QED BY <1>5, IngestInvariant, PTL DEF Spec, SheetsArriveWhole

----------------------------------------------------------------------------
(* The composition.  Each of its steps is one of the handler's, or none.    *)
LEMMA HookStepsIngest == [HookNext]_hookVars => [Next]_vars
<1> SUFFICES ASSUME [HookNext]_hookVars PROVE [Next]_vars
    OBVIOUS
<1>1. ASSUME NEW d \in Deliveries, Advance(d) PROVE [Next]_vars
      BY <1>1 DEF Advance, Handle, Store, Link, Record, CommitAll, Answer, Next
<1>2. ASSUME NEW d \in Deliveries, Raise(d) PROVE [Next]_vars
      BY <1>2 DEF Raise, Next
<1>3. ASSUME NEW d \in Deliveries, Resolve(d) PROVE [Next]_vars
      BY <1>3 DEF Resolve, Next
<1>4. ASSUME NEW w \in Workers, Die(w) PROVE [Next]_vars
  <2>1. Serves(w) \in SUBSET {o \in Deliveries : pc[o] \in Awaiting} /\ Vanish(Serves(w))
        BY <1>4 DEF Die, Serves
  <2> QED BY <2>1 DEF Next
<1>5. CASE UNCHANGED hookVars
      BY <1>5 DEF hookVars
<1> QED BY <1>1, <1>2, <1>3, <1>4, <1>5 DEF HookNext

(* What is proved of the handler alone holds in company of write_audit.     *)
THEOREM ImplementsIngest == HookSpec => Spec
<1>1. HookInit => Init
      BY DEF HookInit
<1> QED BY <1>1, HookStepsIngest, PTL DEF HookSpec, Spec

LEMMA TellsStep ==
    IngestInv /\ TrailTellsSheets /\ [HookNext]_hookVars => TrailTellsSheets'
<1> SUFFICES ASSUME IngestInv, TrailTellsSheets, [HookNext]_hookVars
             PROVE  TrailTellsSheets'
    OBVIOUS
<1>1. ASSUME UNCHANGED <<stored, trail>> PROVE TrailTellsSheets'
      BY <1>1 DEF TrailTellsSheets
<1>2. ASSUME NEW d \in Deliveries, Publish(d), open[d] = Complete(d),
             trail' = trail \cup {Audits!RowOf(d)}
      PROVE  TrailTellsSheets'
  <2>1. stored' = stored \cup {<<SheetOf[d], d>>}
        BY <1>2, PublishWhole
  <2>2. Audits!RowOf(d).body = d
        BY DEF Audits!RowOf, Audits!NewRow
  <2> QED BY <1>2, <2>1, <2>2 DEF TrailTellsSheets
<1> USE DEF tables, auditVars
<1>3. ASSUME NEW d \in Deliveries, Advance(d) PROVE TrailTellsSheets'
  <2>1. CASE CommitAll(d)
        BY <1>2, <2>1, OpenSteps DEF CommitAll, Commit, Audits!Commit
  <2>2. CASE Handle(d) \/ Store(d)
        BY <1>1, <2>2 DEF Handle, Store, Receive, Select, Insert
  <2>3. CASE Link(d) \/ Answer(d)
        BY <1>1, <2>3 DEF Link, Answer, vars, Audits!Acquire, Audits!Block,
                          Audits!ReadLast, Audits!Respond
  <2>4. CASE Record(d)
        BY <1>1, <2>4 DEF Record, Audit, Audits!Flush
  <2> QED BY <1>3, <2>1, <2>2, <2>3, <2>4 DEF Advance
<1>4. ASSUME NEW d \in Deliveries, Raise(d) PROVE TrailTellsSheets'
      BY <1>1, <1>4 DEF Raise, Fail, Interrupt, Audits!Fail
<1>5. ASSUME NEW d \in Deliveries, Resolve(d) PROVE TrailTellsSheets'
  <2>1. CASE Publish(d) /\ Settle(d) /\ Audits!LateCommit(d)
        BY <1>2, <2>1, OpenSteps DEF Audits!LateCommit
  <2> QED BY <1>1, <1>5, <2>1 DEF Resolve
<1>6. ASSUME NEW w \in Workers, Die(w) PROVE TrailTellsSheets'
      BY <1>1, <1>6 DEF Die, Vanish, Interrupt, Audits!Crash
<1>7. CASE UNCHANGED hookVars
      BY <1>1, <1>7 DEF hookVars, vars
<1> QED BY <1>3, <1>4, <1>5, <1>6, <1>7 DEF HookNext

(* Sheets and audit rows come together, whatever fails in between.          *)
THEOREM TrailIsComplete == HookSpec => []TrailTellsSheets
<1>1. HookInit => TrailTellsSheets
      BY DEF HookInit, Init, Audits!Init, TrailTellsSheets
<1> QED BY <1>1, TellsStep, ImplementsIngest, IngestInvariant, PTL DEF HookSpec
=============================================================================
