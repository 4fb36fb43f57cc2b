------------------------------ MODULE PagesProofs ------------------------------
(***************************************************************************)
(* Why the pages of Pages.tla show what they should: the inductive         *)
(* invariant IInv of that module is kept by every step, whatever overtakes *)
(* what, for any set of questions and of actions and any number of loads.  *)
(***************************************************************************)
EXTENDS Pages, TLAPS

\* The pages that drop stale answers and load again after an action either ask
\* one question for good, or cover the filter while an action is under way.
LEMMA PageFacts ==
  ASSUME NEW p \in AllPages
  PROVE  /\ p.asks \in BOOLEAN /\ p.again \in BOOLEAN /\ p.modal \in BOOLEAN
         /\ p.drops \in BOOLEAN /\ p.aborts \in BOOLEAN
         /\ p.acts \in {"none", "patch", "reload"}
         /\ p.drops /\ p.acts = "reload" => ~p.asks \/ p.modal
<1> DEFINE Page == [asks : BOOLEAN, again : BOOLEAN, acts : {"none", "patch", "reload"},
                    modal : BOOLEAN, drops : BOOLEAN, aborts : BOOLEAN]
<1>a. Plain \in Page /\ ~Plain.asks /\ ~Plain.drops /\ Plain.acts = "none"
  BY DEF Plain
<1>b. Flagged \in Page /\ ~Flagged.asks /\ Flagged.drops /\ Flagged.acts = "none"
  BY <1>a DEF Flagged
<1>c. Numbered \in Page /\ ~Numbered.asks /\ Numbered.drops /\ Numbered.acts = "none"
  BY <1>a DEF Numbered
<1>1. CASE p \in {AdminOrders, AdminDeadLetter, VendorApplications, AdminVendors}
  BY <1>a, <1>b, <1>c, <1>1 DEF AdminOrders, AdminDeadLetter, VendorApplications, AdminVendors
<1>2. CASE p \in {AdminCategories, AuditLogs, AuditLogModal, AdminDisputes}
  BY <1>a, <1>b, <1>c, <1>2 DEF AdminCategories, AuditLogs, AuditLogModal, AdminDisputes
<1>3. CASE p \in {AdminRefunds, AdminPayments, LinkedUsers, AdminOrderDetail}
  BY <1>a, <1>b, <1>c, <1>3 DEF AdminRefunds, AdminPayments, LinkedUsers, AdminOrderDetail
<1>4. CASE p \in {AdminTelemetry, AdminAnalytics, Overview, VendorOrders}
  BY <1>a, <1>b, <1>c, <1>4 DEF AdminTelemetry, AdminAnalytics, Overview, VendorOrders
<1>5. CASE p \in {VendorPromotions, VendorProducts, VendorInventory, VendorDashboard}
  BY <1>a, <1>b, <1>c, <1>5 DEF VendorPromotions, VendorProducts, VendorInventory, VendorDashboard
<1>6. CASE p \in {VendorDeadLetter, VendorPayouts, ProductsPage, ProductPage}
  BY <1>a, <1>b, <1>c, <1>6 DEF VendorDeadLetter, VendorPayouts, ProductsPage, ProductPage
<1>7. CASE p \in {VendorStorefront, AccountAddresses, VendorsDirectory, BuyerOrders}
  BY <1>a, <1>b, <1>c, <1>7 DEF VendorStorefront, AccountAddresses, VendorsDirectory, BuyerOrders
<1>8. CASE p \in {DealsPage, HomePage, ForYouPage}
  BY <1>a, <1>b, <1>c, <1>8 DEF DealsPage, HomePage, ForYouPage
<1> QED  BY <1>1, <1>2, <1>3, <1>4, <1>5, <1>6, <1>7, <1>8 DEF AllPages

\* A page starts with one load, of the question on the screen.
LEMMA InitHolds ==
  ASSUME Init
  PROVE  IInv
<1> USE DEF Init, NewLoad, NoAct
<1>1. TypeOK
  <2>1. NewLoad(1, question) \in Flight
    BY DEF Flight
  <2>2. act \in [Acts -> [stage : {"new", "sent", "done", "over"}, question : Questions \cup {""}]]
    OBVIOUS
  <2>3. flight \subseteq Flight
    BY <2>1
  <2> QED  BY <2>2, <2>3 DEF TypeOK
<1>2. flight = {NewLoad(1, question)} /\ newest = 1
  OBVIOUS
<1>3. /\ NewLoad(1, question).id = newest /\ NewLoad(1, question).question = question
      /\ NewLoad(1, question).read = FALSE
  OBVIOUS
<1>4. ActsCommitted /\ ActsAreCurrent /\ ~Acting /\ \A a \in Acts : ~Underway(a)
  BY DEF ActsCommitted, ActsAreCurrent, Acting, Underway
<1> HIDE DEF NewLoad, Init
<1>6. NewestIsCurrent /\ OneAtATime
  BY <1>2, <1>3, <1>4 DEF NewestIsCurrent, OneAtATime
<1>5. ~Settled
  <2>1. NewLoad(1, question) \in flight
    BY <1>2
  <2> QED  BY <1>3, <2>1 DEF Settled
<1> QED  BY <1>1, <1>4, <1>5, <1>6 DEF IInv, Current

\* What a new load does: it is the newest, asks q and has read nothing, and no
\* load under way before has its number.
Loaded(q) ==
  /\ newest' \in Nat /\ newest' = newest + 1
  /\ flight' \subseteq Flight
  /\ failed' = FALSE
  /\ \A l \in flight' : l \in flight \/ l = NewLoad(newest', q)
  /\ NewLoad(newest', q) \in flight'
  /\ NewLoad(newest', q).id = newest'
  /\ NewLoad(newest', q).question = q
  /\ NewLoad(newest', q).read = FALSE
  /\ ~Settled'

\* It is what Load does.
LEMMA LoadFacts ==
  ASSUME BoundAssumption, IInv, NEW q \in Questions, Load(q)
  PROVE  Loaded(q)
<1>0. newest \in Nat /\ flight \subseteq Flight
  BY DEF IInv, TypeOK
<1>1. newest' = newest + 1 /\ newest' \in Nat /\ failed' = FALSE
  BY <1>0 DEF Load
<1>2. /\ NewLoad(newest', q) \in Flight
      /\ NewLoad(newest', q).id = newest'
      /\ NewLoad(newest', q).question = q
      /\ NewLoad(newest', q).read = FALSE
  BY <1>1 DEF NewLoad, Flight
<1>3. /\ NewLoad(newest', q) \in flight'
      /\ \A l \in flight' : l \in flight \/ l = NewLoad(newest', q)
  BY <1>1 DEF Load
<1>4. flight' \subseteq Flight
  BY <1>0, <1>2, <1>3
<1>5. ~Settled'
  BY <1>2, <1>3 DEF Settled
<1> QED  BY <1>1, <1>2, <1>3, <1>4, <1>5 DEF Loaded

\* After it the newest load is current as soon as it asks what is on the screen.
LEMMA LoadIsCurrent ==
  ASSUME BoundAssumption, IInv, NewestIsCurrent, NEW q \in Questions, Load(q),
         question' = q
  PROVE  NewestIsCurrent'
<1> SUFFICES ASSUME NEW l \in flight'
             PROVE  /\ l.id =< newest'
                    /\ l.id = newest' => /\ l.question = question'
                                         /\ l.read => finished' \subseteq l.sees
  BY DEF NewestIsCurrent
<1>0. Loaded(q)
  BY LoadFacts
<1>1. CASE l \in flight
  <2>1. l.id \in Nat /\ newest \in Nat /\ l.id =< newest
    BY <1>1 DEF IInv, TypeOK, Flight, NewestIsCurrent
  <2>2. l.id < newest'
    BY <1>0, <2>1 DEF Loaded
  <2> QED  BY <1>0, <2>1, <2>2 DEF Loaded
<1>2. CASE l = NewLoad(newest', q)
  BY <1>0, <1>2 DEF Loaded
<1> QED  BY <1>0, <1>1, <1>2 DEF Loaded

\* And the only one, when none was under way.
LEMMA LoadIsAlone ==
  ASSUME BoundAssumption, IInv, NEW q \in Questions, Load(q), flight = {}, \A a \in Acts : ~Underway(a)'
  PROVE  OneAtATime'
<1>0. Loaded(q)
  BY LoadFacts
<1>1. \A l \in flight' : l = NewLoad(newest', q)
  BY <1>0 DEF Loaded
<1> QED  BY <1>0, <1>1 DEF Loaded, OneAtATime, Acting, Underway

(***************************************************************************)
(* The steps.                                                              *)
(***************************************************************************)
LEMMA AskHolds ==
  ASSUME BoundAssumption, IInv, NEW q \in Questions, Ask(q)
  PROVE  IInv'
<1>1. /\ Load(q) /\ question' = q /\ page.asks /\ (page.modal => ~Acting)
      /\ page' = page /\ act' = act /\ committed' = committed /\ shown' = shown
      /\ finished' = finished
      /\ crossed' = (crossed \/ flight # {} \/ Acting)
  BY DEF Ask
<1>a. Loaded(q)
  BY <1>1, LoadFacts
<1>2. Acting' = Acting /\ Dropping' = Dropping
  BY <1>1 DEF Acting, Dropping
<1>3. TypeOK'
  BY <1>1, <1>a DEF IInv, TypeOK, Acting, Loaded
<1>4. ActsCommitted'
  BY <1>1 DEF IInv, ActsCommitted, Underway
<1>5. Dropping => ~Acting
  <2>1. CASE page.acts = "none"
    BY <2>1 DEF IInv, ActsCommitted, Acting, Underway
  <2>2. CASE page.acts = "reload"
    BY <1>1, <2>2, PageFacts DEF Dropping, IInv, TypeOK
  <2> QED  BY <2>1, <2>2, PageFacts DEF Dropping, IInv, TypeOK
<1>6. Dropping \/ ~crossed' => Current'
  <2> SUFFICES ASSUME Dropping \/ ~crossed'
               PROVE  Current'
    OBVIOUS
  <2>1. ~Acting /\ Current
    BY <1>1, <1>5 DEF IInv
  <2>2. NewestIsCurrent'
    BY <1>1, <2>1, LoadIsCurrent DEF Current
  <2>3. ActsAreCurrent'
    BY <1>1, <2>1 DEF ActsAreCurrent, Acting, Underway
  <2> QED  BY <1>1, <2>2, <2>3, <1>a DEF Current, Loaded
<1>7. ~crossed' => OneAtATime'
  BY <1>1, LoadIsAlone DEF Acting, Underway
<1> QED  BY <1>2, <1>3, <1>4, <1>6, <1>7 DEF IInv

LEMMA AgainHolds ==
  ASSUME BoundAssumption, IInv, Again
  PROVE  IInv'
<1>1. /\ Load(question) /\ question' = question /\ question \in Questions
      /\ page' = page /\ act' = act /\ committed' = committed /\ shown' = shown
      /\ finished' = finished
      /\ crossed' = (crossed \/ flight # {} \/ Acting)
  BY DEF Again, IInv, TypeOK
<1>a. Loaded(question)
  BY <1>1, LoadFacts
<1>2. Acting' = Acting /\ Dropping' = Dropping
  BY <1>1 DEF Acting, Dropping
<1>3. TypeOK'
  BY <1>1, <1>a DEF IInv, TypeOK, Acting, Loaded
<1>4. ActsCommitted'
  BY <1>1 DEF IInv, ActsCommitted, Underway
<1>5. Dropping \/ ~crossed' => Current'
  <2> SUFFICES ASSUME Dropping \/ ~crossed'
               PROVE  Current'
    OBVIOUS
  <2>1. Current
    BY <1>1 DEF IInv
  <2>2. NewestIsCurrent'
    BY <1>1, <2>1, LoadIsCurrent DEF Current
  <2>3. ActsAreCurrent'
    BY <1>1, <2>1 DEF Current, ActsAreCurrent, Underway
  <2> QED  BY <1>1, <2>2, <2>3, <1>a DEF Current, Loaded
<1>6. ~crossed' => OneAtATime'
  BY <1>1, LoadIsAlone DEF Acting, Underway
<1> QED  BY <1>2, <1>3, <1>4, <1>5, <1>6 DEF IInv

LEMMA ReadHolds ==
  ASSUME IInv, NEW l \in flight, Read(l)
  PROVE  IInv'
<1> DEFINE r == [l EXCEPT !.read = TRUE, !.sees = committed]
<1>1. /\ flight' = (flight \ {l}) \cup {r} /\ page' = page /\ question' = question
      /\ newest' = newest /\ act' = act /\ committed' = committed /\ shown' = shown
      /\ failed' = failed /\ finished' = finished /\ crossed' = crossed
  BY DEF Read
<1>2. /\ r \in Flight /\ r.id = l.id /\ r.question = l.question /\ r.sees = committed
      /\ finished \subseteq committed
  BY DEF IInv, TypeOK, Flight
<1> HIDE DEF r
<1>3. TypeOK'
  BY <1>1, <1>2 DEF IInv, TypeOK
<1>4. ActsCommitted' /\ Acting' = Acting /\ Dropping' = Dropping
  BY <1>1 DEF IInv, ActsCommitted, Acting, Dropping, Underway
<1>5. Settled' = Settled
  BY <1>1, <1>2 DEF Settled
<1>6. NewestIsCurrent => NewestIsCurrent'
  BY <1>1, <1>2 DEF NewestIsCurrent
<1>7. ActsAreCurrent => ActsAreCurrent'
  BY <1>1 DEF ActsAreCurrent, Underway
<1>8. OneAtATime => OneAtATime'
  BY <1>1, <1>2, <1>4 DEF OneAtATime, Underway
<1> QED  BY <1>1, <1>3, <1>4, <1>5, <1>6, <1>7, <1>8 DEF IInv, Current

\* What is left when a load ends.
LEMMA LoadEnds ==
  ASSUME IInv, NEW l \in flight, flight' = flight \ {l},
         UNCHANGED <<page, question, newest, act, committed, finished, crossed>>
  PROVE  /\ flight' \subseteq Flight
         /\ ActsCommitted' /\ Acting' = Acting /\ Dropping' = Dropping
         /\ NewestIsCurrent => NewestIsCurrent'
         /\ ActsAreCurrent => ActsAreCurrent'
         /\ OneAtATime => OneAtATime'
<1>1. flight' \subseteq flight
  OBVIOUS
<1>2. ActsCommitted' /\ Acting' = Acting /\ Dropping' = Dropping
  BY DEF IInv, ActsCommitted, Acting, Dropping, Underway
<1>3. NewestIsCurrent => NewestIsCurrent'
  BY <1>1 DEF NewestIsCurrent
<1>4. ActsAreCurrent => ActsAreCurrent'
  BY DEF ActsAreCurrent, Underway
<1>5. OneAtATime => OneAtATime'
  BY <1>1, <1>2 DEF OneAtATime, Underway
<1> QED  BY <1>1, <1>2, <1>3, <1>4, <1>5 DEF IInv, TypeOK

LEMMA AnswerHolds ==
  ASSUME IInv, NEW l \in flight, Answer(l)
  PROVE  IInv'
<1>1. /\ l.read /\ flight' = flight \ {l}
      /\ shown' = IF Stale(l) THEN shown ELSE [question |-> l.question, sees |-> l.sees]
      /\ UNCHANGED <<page, question, newest, act, committed, failed, finished, crossed>>
  BY DEF Answer
<1>2. /\ l \in Flight /\ shown' \in [question : Questions \cup {""}, sees : SUBSET Acts]
      /\ ~Stale(l) => shown'.question = l.question /\ shown'.sees = l.sees
  BY <1>1 DEF IInv, TypeOK, Flight
<1>3. TypeOK'
  BY <1>1, <1>2, LoadEnds DEF IInv, TypeOK
<1>4. Dropping \/ ~crossed => (Settled' => shown'.question = question' /\ finished' \subseteq shown'.sees)
  <2> SUFFICES ASSUME Dropping \/ ~crossed, Settled'
               PROVE  shown'.question = question' /\ finished' \subseteq shown'.sees
    OBVIOUS
  <2>1. CASE l.id = newest
    BY <1>1, <1>2, <2>1 DEF IInv, Current, NewestIsCurrent, Stale
  <2>2. CASE l.id # newest
    <3>1. Dropping
      BY <2>2 DEF IInv, OneAtATime, Underway
    <3>2. Stale(l)
      BY <2>2, <3>1 DEF Dropping, Stale
    <3>3. Settled
      BY <1>1, <2>2 DEF Settled
    <3> QED  BY <1>1, <3>2, <3>3 DEF IInv, Current
  <2> QED  BY <2>1, <2>2
<1> QED  BY <1>1, <1>3, <1>4, LoadEnds DEF IInv, Current

LEMMA LoadFailsHolds ==
  ASSUME IInv, NEW l \in flight, LoadFails(l)
  PROVE  IInv'
<1>1. /\ flight' = flight \ {l} /\ shown' = shown /\ failed' = (failed \/ ~Stale(l))
      /\ UNCHANGED <<page, question, newest, act, committed, finished, crossed>>
  BY DEF LoadFails
<1>2. TypeOK'
  BY <1>1, LoadEnds DEF IInv, TypeOK
<1>3. Settled' => Settled
  <2> SUFFICES ASSUME Settled'
               PROVE  Settled
    OBVIOUS
  <2>1. ~failed /\ Stale(l)
    BY <1>1 DEF Settled
  <2>2. l.id # newest
    BY <2>1 DEF Stale
  <2> QED  BY <1>1, <2>1, <2>2 DEF Settled
<1> QED  BY <1>1, <1>2, <1>3, LoadEnds DEF IInv, Current

LEMMA PressHolds ==
  ASSUME IInv, NEW a \in Acts, Press(a)
  PROVE  IInv'
<1>1. /\ page.acts # "none"
      /\ act' = [act EXCEPT ![a] = [stage |-> "sent", question |-> question]]
      /\ crossed' = (crossed \/ flight # {} \/ Acting)
      /\ UNCHANGED <<page, question, newest, flight, committed, shown, failed, finished>>
  BY DEF Press
<1>2. /\ act' \in [Acts -> [stage : {"new", "sent", "done", "over"}, question : Questions \cup {""}]]
      /\ act'[a].stage = "sent" /\ act'[a].question = question
      /\ \A b \in Acts \ {a} : act'[b] = act[b]
  BY <1>1 DEF IInv, TypeOK
<1>3. TypeOK'
  BY <1>1, <1>2 DEF IInv, TypeOK, Acting
<1>4. ActsCommitted'
  BY <1>1, <1>2 DEF IInv, TypeOK, ActsCommitted, Underway
<1>5. Current => Current'
  BY <1>1, <1>2 DEF Current, NewestIsCurrent, ActsAreCurrent, Settled, Underway
<1>6. ~crossed' => OneAtATime'
  BY <1>1, <1>2 DEF OneAtATime, Underway, Acting
<1> QED  BY <1>1, <1>3, <1>4, <1>5, <1>6 DEF IInv, Dropping

\* How an action moves on.
LEMMA StageFacts ==
  ASSUME IInv, NEW a \in Acts, NEW s \in {"done", "over"}, Stage(a, s),
         act[a].stage \in {"sent", "done"}
  PROVE  /\ act' \in [Acts -> [stage : {"new", "sent", "done", "over"}, question : Questions \cup {""}]]
         /\ act'[a].stage = s /\ act'[a].question = act[a].question
         /\ \A b \in Acts \ {a} : act'[b] = act[b]
         /\ Acting' => Acting
<1>1. /\ act' \in [Acts -> [stage : {"new", "sent", "done", "over"}, question : Questions \cup {""}]]
      /\ act'[a].stage = s /\ act'[a].question = act[a].question
      /\ \A b \in Acts \ {a} : act'[b] = act[b]
  <2> DEFINE r == [act[a] EXCEPT !.stage = s]
  <2>1. r \in [stage : {"new", "sent", "done", "over"}, question : Questions \cup {""}]
        /\ r.stage = s /\ r.question = act[a].question
    BY DEF IInv, TypeOK
  <2>2. act' = [act EXCEPT ![a] = r]
    BY DEF Stage
  <2> HIDE DEF r
  <2> QED  BY <2>1, <2>2 DEF IInv, TypeOK
<1>2. Acting' => Acting
  BY <1>1 DEF Acting
<1> QED  BY <1>1, <1>2

LEMMA CommitHolds ==
  ASSUME IInv, NEW a \in Acts, Commit(a)
  PROVE  IInv'
<1>1. /\ act[a].stage = "sent" /\ Stage(a, "done")
      /\ committed' = committed \cup {a}
      /\ UNCHANGED <<page, question, newest, flight, shown, failed, finished, crossed>>
  BY DEF Commit
<1>2. TypeOK'
  BY <1>1, StageFacts DEF IInv, TypeOK
<1>3. ActsCommitted'
  BY <1>1, StageFacts DEF IInv, ActsCommitted, Underway
<1>4. ActsAreCurrent => ActsAreCurrent'
  BY <1>1, StageFacts DEF ActsAreCurrent, Underway
<1>5. Current => Current'
  BY <1>1, <1>4 DEF Current, NewestIsCurrent, Settled
<1>6. OneAtATime => OneAtATime'
  <2>1. \A b \in Acts : Underway(b)' => Underway(b)
    BY <1>1, StageFacts DEF Underway
  <2>2. Acting' => Acting
    BY <1>1, StageFacts
  <2> QED  BY <1>1, <2>1, <2>2 DEF OneAtATime
<1> QED  BY <1>1, <1>2, <1>3, <1>5, <1>6 DEF IInv, Dropping

LEMMA ActAnswersHolds ==
  ASSUME BoundAssumption, IInv, NEW a \in Acts, ActAnswers(a)
  PROVE  IInv'
<1>1. /\ act[a].stage = "done" /\ Stage(a, "over")
      /\ finished' = finished \cup {a}
      /\ crossed' = (crossed \/ flight # {})
      /\ page' = page /\ question' = question /\ committed' = committed
  BY DEF ActAnswers
<1>2. a \in committed /\ act[a].question \in Questions /\ page.acts # "none"
  BY <1>1 DEF IInv, ActsCommitted, Underway
<1>3. ActsCommitted'
  BY <1>1, <1>2, StageFacts DEF IInv, ActsCommitted, Underway
<1>4. ActsAreCurrent => ActsAreCurrent'
  BY <1>1, StageFacts DEF ActsAreCurrent, Underway
<1>5. CASE page.acts = "reload"
  <2>1. Load(act[a].question) /\ shown' = shown
    BY <1>5 DEF ActAnswers
  <2>a. Loaded(act[a].question)
    BY <1>2, <2>1, LoadFacts
  <2>2. TypeOK'
    BY <1>1, <1>2, <2>1, <2>a, StageFacts DEF IInv, TypeOK, Loaded
  <2>3. Dropping \/ ~crossed' => Current'
    <3> SUFFICES ASSUME Dropping \/ ~crossed'
                 PROVE  Current'
      OBVIOUS
    <3>1. Current
      BY <1>1 DEF IInv
    <3>2. act[a].question = question
      BY <1>1, <3>1 DEF Current, ActsAreCurrent, Underway
    <3>3. NewestIsCurrent'
      BY <1>1, <1>2, <2>1, <3>1, <3>2, LoadIsCurrent DEF Current
    <3> QED  BY <1>2, <1>4, <2>1, <2>a, <3>1, <3>3 DEF Current, Loaded
  <2>4. ~crossed' => OneAtATime'
    <3> SUFFICES ASSUME ~crossed'
                 PROVE  OneAtATime'
      OBVIOUS
    <3>1. flight = {} /\ OneAtATime
      BY <1>1 DEF IInv
    <3>2. \A b \in Acts \ {a} : ~Underway(b)
      BY <1>1, <3>1 DEF OneAtATime, Underway
    <3>3. \A b \in Acts : ~Underway(b)'
      BY <1>1, <3>2, StageFacts DEF Underway
    <3> QED  BY <1>2, <2>1, <3>1, <3>3, LoadIsAlone
  <2> QED  BY <1>1, <1>3, <2>2, <2>3, <2>4 DEF IInv, Dropping
<1>6. CASE page.acts # "reload"
  <2>1. /\ shown' = [shown EXCEPT !.sees = @ \cup {a}]
        /\ newest' = newest /\ flight' = flight /\ failed' = failed
    BY <1>6 DEF ActAnswers
  <2>2. /\ shown' \in [question : Questions \cup {""}, sees : SUBSET Acts]
        /\ shown'.question = shown.question /\ shown'.sees = shown.sees \cup {a}
    BY <2>1 DEF IInv, TypeOK
  <2>3. TypeOK'
    BY <1>1, <1>2, <2>1, <2>2, StageFacts DEF IInv, TypeOK
  <2>4. ~Dropping
    BY <1>2, <1>6, PageFacts DEF Dropping, IInv, TypeOK
  <2>5. ~crossed' => Current'
    <3> SUFFICES ASSUME ~crossed'
                 PROVE  Current'
      OBVIOUS
    <3>1. flight = {} /\ Current
      BY <1>1 DEF IInv
    <3>2. NewestIsCurrent'
      BY <2>1, <3>1 DEF NewestIsCurrent
    <3>3. Settled' = Settled
      BY <2>1 DEF Settled
    <3> QED  BY <1>1, <1>4, <2>2, <3>1, <3>2, <3>3 DEF Current
  <2>6. ~crossed' => OneAtATime'
    BY <1>1, <2>1, StageFacts DEF IInv, OneAtATime, Underway
  <2> QED  BY <1>1, <1>3, <2>3, <2>4, <2>5, <2>6 DEF IInv, Dropping
<1> QED  BY <1>5, <1>6

LEMMA ActFailsHolds ==
  ASSUME IInv, NEW a \in Acts, ActFails(a)
  PROVE  IInv'
<1>1. /\ act[a].stage \in {"sent", "done"} /\ Stage(a, "over") /\ failed' = TRUE
      /\ UNCHANGED <<page, question, newest, flight, committed, shown, finished, crossed>>
  BY DEF ActFails
<1>2. TypeOK'
  BY <1>1, StageFacts DEF IInv, TypeOK
<1>3. ActsCommitted'
  BY <1>1, StageFacts DEF IInv, ActsCommitted, Underway
<1>4. ActsAreCurrent => ActsAreCurrent'
  BY <1>1, StageFacts DEF ActsAreCurrent, Underway
<1>5. Current => Current'
  BY <1>1, <1>4 DEF Current, NewestIsCurrent, Settled
<1>6. OneAtATime => OneAtATime'
  BY <1>1, StageFacts DEF OneAtATime, Underway
<1> QED  BY <1>1, <1>2, <1>3, <1>5, <1>6 DEF IInv, Dropping

\* Every step keeps the invariant.
LEMMA NextHolds ==
  ASSUME BoundAssumption, IInv, [Next]_vars
  PROVE  IInv'
<1>1. CASE UNCHANGED vars
  BY <1>1 DEF vars, IInv, TypeOK, ActsCommitted, Dropping, Current, NewestIsCurrent,
              ActsAreCurrent, Settled, OneAtATime, Acting, Underway
<1>2. ASSUME NEW q \in Questions, Ask(q)
      PROVE  IInv'
  BY <1>2, AskHolds
<1>3. CASE Again
  BY <1>3, AgainHolds
<1>4. ASSUME NEW l \in flight, Read(l) \/ Answer(l) \/ LoadFails(l)
      PROVE  IInv'
  BY <1>4, ReadHolds, AnswerHolds, LoadFailsHolds
<1>5. ASSUME NEW a \in Acts, Press(a) \/ Commit(a) \/ ActAnswers(a) \/ ActFails(a)
      PROVE  IInv'
  BY <1>5, PressHolds, CommitHolds, ActAnswersHolds, ActFailsHolds
<1> QED  BY <1>1, <1>2, <1>3, <1>4, <1>5 DEF Next

\* It says what the run checks: a settled page answers the question on its
\* screen and shows what it reported as done.
LEMMA AnswersShown ==
  ASSUME IInv
  PROVE  ScreenAnswers
BY DEF IInv, Current, Dropping, ScreenAnswers

\* For any set of questions and of actions, a page shows the answer to what it
\* asks with every action it reported, once settled: always if it drops stale
\* answers, and as long as nothing overlaps if it does not.
THEOREM PagesInvariance == BoundAssumption => (Spec => []ScreenAnswers)
<1> SUFFICES ASSUME BoundAssumption
             PROVE  Spec => []ScreenAnswers
  OBVIOUS
<1>1. Init => IInv
  BY InitHolds
<1>2. IInv /\ [Next]_vars => IInv'
  BY NextHolds
<1>3. IInv => ScreenAnswers
  BY AnswersShown
<1> QED  BY <1>1, <1>2, <1>3, PTL DEF Spec
================================================================================
