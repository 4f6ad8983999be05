-------------------------- MODULE RecordPageProofs --------------------------
(***************************************************************************)
(* Proofs about RecordPage, for any project, records and bounds.           *)
(***************************************************************************)
EXTENDS RecordPage, TLAPS

USE RecordPageAssumption

(***************************************************************************)
(* The inductive invariant: besides its type, the page shows a text of its *)
(* record, requests carry texts of theirs, and what is still waited for    *)
(* was sent from a page of the class that is mounted.                      *)
(***************************************************************************)
OwnRequest(q) ==
  /\ OwnText(q.item, q.class) /\ q.item.id = q.id
  /\ q.kind = "load" => q.id # New /\ OwnText(q.answer, q.class)

OwnRequests(reqs)   == \A q \in reqs : OwnRequest(q)
LiveIn(reqs, cls)   == \A q \in reqs : q.live => q.class = cls
OwnItem             == class # NoModel => OwnText(item, class)

IInv == TypeOK /\ OwnItem /\ OwnRequests(requests) /\ LiveIn(requests, class)

\* A form that is not loaded is well typed and holds nobody's text.
LEMMA EmptyOwn ==
  ASSUME NEW r \in Ids
  PROVE  /\ Empty(r) \in Forms /\ Empty(r).id = r /\ Empty(r).text = Blank
         /\ \A cls : OwnText(Empty(r), cls)
BY DEF Empty, Forms, OwnText

\* A request that is sent with an own form is well typed and own.
LEMMA RequestOwn ==
  ASSUME NEW kind \in {"load", "save", "publish"}, NEW m \in Models, NEW cls \in Classes,
         NEW r \in Ids, NEW sent \in Forms,
         sent.id = r, OwnText(sent, cls), kind = "load" => r # New
  PROVE  LET q == Request(kind, m, cls, r, sent) IN
         q \in Requests /\ OwnRequest(q) /\ q.class = cls
<1>1. Empty(r) \in Forms /\ OwnText(Empty(r), cls)
  BY EmptyOwn
<1>2. QED
  BY <1>1 DEF Request, Requests, OwnRequest

\* Nothing that a page has sent is waited for once it is unmounted.
LEMMA UnmountedOwn ==
  ASSUME NEW rest, rest \subseteq Requests, OwnRequests(rest)
  PROVE  /\ Unmounted(rest) \subseteq Requests /\ OwnRequests(Unmounted(rest))
         /\ \A q \in Unmounted(rest) : ~q.live
<1> SUFFICES ASSUME NEW p \in rest
             PROVE  LET q == [p EXCEPT !.live = FALSE] IN
                    q \in Requests /\ OwnRequest(q) /\ ~q.live
  BY DEF Unmounted, OwnRequests
<1>1. p \in Requests /\ OwnRequest(p)
  BY DEF OwnRequests
<1>2. QED
  BY <1>1 DEF Requests, OwnRequest

\* A page that is mounted is well typed, shows its own text and waits only for
\* its own load.
LEMMA MountOwn ==
  ASSUME NEW m \in Models, NEW cls \in Classes \cup {NoModel}, NEW r \in Ids \cup {List},
         NEW rest, rest \subseteq Requests, OwnRequests(rest), \A q \in rest : ~q.live,
         Mount(m, cls, r, rest)
  PROVE  /\ class' = cls /\ item' \in Forms /\ original' \in Forms
         /\ loading' \in BOOLEAN /\ saving' \in BOOLEAN
         /\ requests' \subseteq Requests
         /\ OwnItem' /\ OwnRequests(requests') /\ LiveIn(requests', class')
<1>0. New \in Ids
  BY DEF Ids
<1>1. CASE r = List \/ cls = NoModel
  <2>1. item' = Empty(New) /\ original' = Empty(New) /\ requests' = rest /\ class' = cls
        /\ loading' = FALSE /\ saving' = FALSE
    BY <1>1 DEF Mount
  <2>2. QED
    BY <2>1, <1>0, EmptyOwn DEF OwnItem, LiveIn, OwnText
<1>2. CASE ~(r = List \/ cls = NoModel)
  <2>1. r \in Ids /\ cls \in Classes
    BY <1>2
  <2>2. /\ item' = Empty(r) /\ original' = Empty(r) /\ class' = cls
        /\ loading' = (r # New) /\ saving' = FALSE
        /\ requests' = IF r = New THEN rest
                       ELSE rest \cup {Request("load", m, cls, r, Empty(r))}
    BY <1>2 DEF Mount
  <2>3. /\ Empty(r) \in Forms /\ Empty(r).id = r /\ OwnText(Empty(r), cls)
    BY <2>1, EmptyOwn
  <2>4. ASSUME r # New
        PROVE  LET q == Request("load", m, cls, r, Empty(r)) IN
               q \in Requests /\ OwnRequest(q) /\ q.class = cls
    BY <2>1, <2>3, <2>4, RequestOwn
  <2>5. OwnItem'
    BY <2>2, <2>3 DEF OwnItem, OwnText
  <2>6. requests' \subseteq Requests /\ OwnRequests(requests') /\ LiveIn(requests', class')
    BY <2>2, <2>4 DEF OwnRequests, LiveIn
  <2>7. QED
    BY <2>2, <2>3, <2>5, <2>6
<1>3. QED
  BY <1>1, <1>2

\* Going to another path keeps the invariant.
LEMMA GotoOwn ==
  ASSUME IInv, NEW m \in Models, NEW r \in Ids \cup {List},
         NEW rest \in SUBSET requests, NEW saved \in SUBSET Forms,
         Goto(m, r, rest, saved), UNCHANGED <<context, server, acts>>
  PROVE  IInv'
<1>1. rest \subseteq Requests /\ OwnRequests(rest) /\ LiveIn(rest, class)
  BY DEF IInv, TypeOK, OwnRequests, LiveIn
<1>2. url' \in [model : Models, record : Ids \cup {List}] /\ fetches' \subseteq Models
  BY DEF Goto, IInv, TypeOK
<1>3. CASE ~SameRoute(r) \/ class = NoModel
  <2>1. Mount(m, Shown(r), r, Unmounted(rest))
    BY <1>3 DEF Goto
  <2>2. Shown(r) \in Classes \cup {NoModel}
    BY DEF Shown, IInv, TypeOK
  <2>3. /\ class' = Shown(r) /\ item' \in Forms /\ original' \in Forms
        /\ loading' \in BOOLEAN /\ saving' \in BOOLEAN /\ requests' \subseteq Requests
        /\ OwnItem' /\ OwnRequests(requests') /\ LiveIn(requests', class')
    <3>1. /\ Unmounted(rest) \subseteq Requests /\ OwnRequests(Unmounted(rest))
          /\ \A q \in Unmounted(rest) : ~q.live
      BY <1>1, UnmountedOwn
    <3>2. QED
      BY <2>1, <2>2, <3>1, MountOwn
  <2>4. TypeOK'
    BY <1>2, <2>2, <2>3 DEF IInv, TypeOK
  <2>5. QED
    BY <2>3, <2>4 DEF IInv, OwnRequests, LiveIn
<1>4. CASE SameRoute(r) /\ class # NoModel /\ r = url.record
  <2>1. /\ class' = class /\ item' = item /\ loading' = loading /\ requests' = rest
        /\ Settled(saved)
    BY <1>4 DEF Goto
  <2>2. original' \in Forms /\ saving' \in BOOLEAN
    BY <2>1 DEF Settled, IInv, TypeOK
  <2>3. TypeOK'
    BY <1>1, <1>2, <2>1, <2>2 DEF IInv, TypeOK
  <2>4. OwnItem' /\ OwnRequests(requests)' /\ LiveIn(requests, class)'
    BY <1>1, <2>1 DEF IInv, OwnItem, OwnRequests, LiveIn
  <2>5. QED
    BY <2>3, <2>4 DEF IInv
<1>5. CASE SameRoute(r) /\ class # NoModel /\ r # url.record
  <2>1. /\ class' = class /\ Switch(m, r, rest) /\ saving' = (saving /\ saved = {})
    BY <1>5 DEF Goto
  <2>2. r \in Ids /\ r # New /\ class \in Classes
    BY <1>5 DEF SameRoute, IInv, TypeOK
  <2>3. Empty(r) \in Forms /\ Empty(r).id = r /\ OwnText(Empty(r), class)
    BY <2>2, EmptyOwn
  <2> DEFINE q == Request("load", m, class, r, Empty(r))
  <2>4. q \in Requests /\ OwnRequest(q) /\ q.class = class
    BY <2>2, <2>3, RequestOwn
  <2> HIDE DEF q
  <2>5. item' = Empty(r) /\ original' = Empty(r) /\ loading' = TRUE /\ requests' = rest \cup {q}
    BY <2>1 DEF Switch, q
  <2>6. TypeOK'
    BY <1>1, <1>2, <2>1, <2>3, <2>4, <2>5 DEF IInv, TypeOK
  <2>7. OwnItem' /\ OwnRequests(requests)' /\ LiveIn(requests, class)'
    BY <1>1, <2>1, <2>3, <2>4, <2>5 DEF OwnItem, OwnRequests, LiveIn
  <2>8. QED
    BY <2>6, <2>7 DEF IInv
<1>6. QED
  BY <1>3, <1>4, <1>5

\* What Init leaves.
LEMMA InitOwn == Init => IInv
<1> SUFFICES ASSUME Init PROVE IInv
  OBVIOUS
<1>1. New \in Ids /\ Empty(New) \in Forms
  BY EmptyOwn DEF Ids
<1>2. /\ DOMAIN server \subseteq Classes \X Records
      /\ \A k \in DOMAIN server : server[k] \in [v : 0..MaxActs, published : BOOLEAN]
  BY DEF Init
<1>3. url \in [model : Models, record : Ids \cup {List}] /\ fetches \subseteq Models
  BY DEF Init
<1>4. /\ context \in Models \cup {NoModel} /\ class \in Classes \cup {NoModel}
      /\ item \in Forms /\ original \in Forms /\ loading \in BOOLEAN /\ saving \in BOOLEAN
      /\ requests \subseteq Requests
  BY <1>1 DEF Init
<1>5. acts \in 0..MaxActs
  BY DEF Init
<1>6. TypeOK
  BY <1>2, <1>3, <1>4, <1>5 DEF TypeOK
<1>7. QED
  BY <1>6 DEF Init, IInv, OwnItem, OwnRequests, LiveIn

\* The API answers a load with the record's own text.
LEMMA RecordOwn ==
  ASSUME TypeOK, NEW cls \in Classes, NEW id \in Records, <<cls, id>> \in DOMAIN server
  PROVE  Record(cls, id) \in Forms /\ OwnText(Record(cls, id), cls)
<1>1. server[<<cls, id>>] \in [v : 0..MaxActs, published : BOOLEAN]
  BY DEF TypeOK
<1>2. [of |-> <<cls, id>>, v |-> server[<<cls, id>>].v] \in Texts
  BY <1>1 DEF Texts, Ids
<1>3. QED
  BY <1>1, <1>2 DEF Record, Forms, Ids, OwnText

\* What a request leaves stored is well typed.
LEMMA WrittenType ==
  ASSUME NEW q \in Requests, NEW old \in [v : 0..MaxActs, published : BOOLEAN]
  PROVE  Written(q, old) \in [v : 0..MaxActs, published : BOOLEAN]
<1>1. q.item \in Forms /\ q.kind \in {"load", "save", "publish"}
  BY DEF Requests
<1>2. q.item.published \in BOOLEAN /\ (q.item.text # Blank => q.item.text.v \in 0..MaxActs)
  BY <1>1 DEF Forms, Texts
<1>3. CASE q.kind = "load"
  BY <1>3 DEF Written
<1>4. CASE q.kind = "publish"
  BY <1>2, <1>4 DEF Written
<1>5. CASE q.kind = "save"
  BY <1>2, <1>5 DEF Written
<1>6. QED
  BY <1>1, <1>3, <1>4, <1>5

\* A request that the API serves stays well typed and own.
LEMMA ServeOwn ==
  ASSUME IInv, NEW q \in requests, Serve(q)
  PROVE  IInv'
<1>1. q \in Requests /\ OwnRequest(q) /\ TypeOK
  BY DEF IInv, TypeOK, OwnRequests
<1>2. PICK id \in Records, status \in {"ok", "lost"} :
        LET key == <<q.class, id>> IN
        /\ IF q.id = New THEN key \notin DOMAIN server ELSE id = q.id /\ key \in DOMAIN server
        /\ server' = [k \in DOMAIN server \cup {key} |->
                        IF k # key THEN server[k]
                        ELSE Written(q, IF q.id = New THEN [v |-> 0, published |-> FALSE]
                                                      ELSE server[k])]
        /\ Answered(q, status, IF q.kind = "load" THEN Record(q.class, id) ELSE Empty(id))
  BY DEF Serve
<1> DEFINE key == <<q.class, id>>
           answer == IF q.kind = "load" THEN Record(q.class, id) ELSE Empty(id)
           served == [q EXCEPT !.status = status, !.answer = answer]
<1>3. key \in Classes \X Records
  BY <1>1 DEF Requests
<1>4. answer \in Forms /\ (q.kind = "load" => OwnText(answer, q.class))
  <2>1. CASE q.kind = "load"
    <3>1. key \in DOMAIN server /\ q.class \in Classes
      BY <1>1, <1>2, <2>1 DEF OwnRequest, Requests
    <3>2. QED
      BY <1>1, <2>1, <3>1, RecordOwn
  <2>2. CASE q.kind # "load"
    BY <2>2, EmptyOwn DEF Ids
  <2>3. QED
    BY <2>1, <2>2
<1>5. served \in Requests /\ OwnRequest(served) /\ served.live = q.live /\ served.class = q.class
  <2> HIDE DEF answer
  <2>1. QED
    BY <1>1, <1>4 DEF Requests, OwnRequest
<1>6. /\ DOMAIN server' \subseteq Classes \X Records
      /\ \A k \in DOMAIN server' : server'[k] \in [v : 0..MaxActs, published : BOOLEAN]
  <2>1. \A k \in DOMAIN server : server[k] \in [v : 0..MaxActs, published : BOOLEAN]
    BY <1>1 DEF TypeOK
  <2>2. [v |-> 0, published |-> FALSE] \in [v : 0..MaxActs, published : BOOLEAN]
    OBVIOUS
  <2>3. (q.id # New) => key \in DOMAIN server
    BY <1>2
  <2>4. DOMAIN server' = DOMAIN server \cup {key}
    BY <1>2
  <2>5. ASSUME NEW k \in DOMAIN server'
        PROVE  server'[k] \in [v : 0..MaxActs, published : BOOLEAN]
    <3>1. CASE k # key
      BY <1>2, <2>1, <2>4, <3>1
    <3>2. CASE k = key
      <4> DEFINE old == IF q.id = New THEN [v |-> 0, published |-> FALSE] ELSE server[key]
      <4>1. old \in [v : 0..MaxActs, published : BOOLEAN]
        BY <2>1, <2>2, <2>3
      <4>2. server'[k] = Written(q, old)
        BY <1>2, <3>2
      <4> HIDE DEF old
      <4>3. QED
        BY <1>1, <4>1, <4>2, WrittenType
    <3>3. QED
      BY <3>1, <3>2
  <2>6. QED
    BY <1>1, <1>3, <2>4, <2>5 DEF TypeOK
<1>7. requests' = (requests \ {q}) \cup {served}
  BY <1>2 DEF Answered
<1> HIDE DEF key, answer, served
<1>8. UNCHANGED <<url, context, fetches, class, item, original, loading, saving, acts>>
  BY DEF Serve, form
<1>9. TypeOK'
  BY <1>1, <1>5, <1>6, <1>7, <1>8 DEF TypeOK
<1>10. OwnItem' /\ OwnRequests(requests)' /\ LiveIn(requests, class)'
  BY <1>5, <1>7, <1>8 DEF IInv, OwnItem, OwnRequests, LiveIn
<1>11. QED
  BY <1>9, <1>10 DEF IInv

\* A request that was answered is gone; the form it left is the page's own.
LEMMA RepliedOwn ==
  ASSUME IInv, NEW q \in requests, requests' = requests \ {q},
         UNCHANGED <<url, context, fetches, class, server, acts>>,
         item' \in Forms, original' \in Forms, loading' \in BOOLEAN, saving' \in BOOLEAN,
         OwnItem'
  PROVE  IInv'
<1>1. TypeOK'
  BY DEF IInv, TypeOK
<1>2. OwnRequests(requests)' /\ LiveIn(requests, class)'
  BY DEF IInv, OwnRequests, LiveIn
<1>3. QED
  BY <1>1, <1>2 DEF IInv

\* Every step keeps the invariant.
LEMMA StepOwn == IInv /\ [Next]_vars => IInv'
<1> SUFFICES ASSUME IInv, [Next]_vars PROVE IInv'
  OBVIOUS
<1>0. /\ TypeOK /\ OwnItem /\ OwnRequests(requests) /\ LiveIn(requests, class)
      /\ \A q \in requests : q \in Requests /\ OwnRequest(q) /\ (q.live => q.class = class)
  BY DEF IInv, TypeOK, OwnRequests, LiveIn
<1>1. ASSUME NEW m \in Models, NEW r \in Ids \cup {List}, Visit(m, r) PROVE IInv'
  BY <1>1, GotoOwn DEF Visit
<1>2. CASE Type
  <2>1. class \in Classes /\ item \in Forms /\ item.id \in Ids /\ acts + 1 \in 0..MaxActs
    BY <1>0, <1>2 DEF Type, Open, Act, TypeOK, Forms
  <2> DEFINE text == [of |-> <<class, item.id>>, v |-> acts + 1]
  <2>2. text \in Texts /\ text.of = <<class, item.id>>
    BY <2>1 DEF Texts
  <2>3. item' = [item EXCEPT !.text = text]
    BY <1>2 DEF Type
  <2> HIDE DEF text
  <2>4. item' \in Forms /\ item'.id = item.id /\ item'.text = text
    BY <2>1, <2>2, <2>3 DEF Forms
  <2>5. /\ UNCHANGED <<url, context, fetches, class, original, loading, saving, requests, server>>
        /\ acts' = acts + 1
    BY <1>2 DEF Type, Act
  <2>6. TypeOK' /\ OwnItem'
    BY <1>0, <2>1, <2>2, <2>4, <2>5 DEF TypeOK, OwnItem, OwnText
  <2>7. QED
    BY <1>0, <2>5, <2>6 DEF IInv, OwnRequests, LiveIn
<1>3. ASSUME NEW q, q \in Requests, OwnRequest(q), q.class = class,
             requests' = requests \cup {q}, saving' \in BOOLEAN, acts' \in 0..MaxActs,
             UNCHANGED <<url, context, fetches, class, item, original, loading, server>>
      PROVE  IInv'
  <2>1. TypeOK'
    BY <1>0, <1>3 DEF TypeOK
  <2>2. OwnItem' /\ OwnRequests(requests)' /\ LiveIn(requests, class)'
    BY <1>0, <1>3 DEF OwnItem, OwnRequests, LiveIn
  <2>3. QED
    BY <2>1, <2>2 DEF IInv
<1>4. CASE Save
  <2>1. class \in Classes /\ item \in Forms /\ item.id \in Ids /\ acts' \in 0..MaxActs
        /\ url.model \in Models /\ OwnText(item, class)
    BY <1>0, <1>4 DEF Save, Open, Act, TypeOK, Forms, OwnItem
  <2> DEFINE q == Request("save", url.model, class, item.id, item)
  <2>2. q \in Requests /\ OwnRequest(q) /\ q.class = class
    BY <2>1, RequestOwn
  <2>3. requests' = requests \cup {q} /\ saving' = TRUE
    BY <1>4 DEF Save
  <2> HIDE DEF q
  <2>4. UNCHANGED <<url, context, fetches, class, item, original, loading, server>>
    BY <1>4 DEF Save
  <2>5. QED
    BY <1>3, <2>1, <2>2, <2>3, <2>4
<1>5. CASE Publish
  <2>1. class \in Classes /\ item \in Forms /\ item.id \in Ids /\ acts' \in 0..MaxActs
        /\ url.model \in Models /\ OwnText(item, class) /\ saving \in BOOLEAN
    BY <1>0, <1>5 DEF Publish, Open, Act, TypeOK, Forms, OwnItem
  <2> DEFINE sent == [item EXCEPT !.published = ~item.published]
             q == Request("publish", url.model, class, item.id, sent)
  <2>2. sent \in Forms /\ sent.id = item.id /\ OwnText(sent, class)
    BY <2>1 DEF Forms, OwnText
  <2> HIDE DEF sent
  <2>3. q \in Requests /\ OwnRequest(q) /\ q.class = class
    BY <2>1, <2>2, RequestOwn
  <2>4. requests' = requests \cup {q}
    BY <1>5 DEF Publish, sent
  <2> HIDE DEF q
  <2>5. UNCHANGED <<url, context, fetches, class, item, original, loading, saving, server>>
    BY <1>5 DEF Publish, form
  <2>6. QED
    BY <1>3, <2>1, <2>3, <2>4, <2>5
<1>6. ASSUME NEW q \in requests, Serve(q) PROVE IInv'
  BY <1>6, ServeOwn
<1>7. ASSUME NEW m \in Models, ContextReply(m) PROVE IInv'
  <2>1. context' = m /\ fetches' \subseteq Models /\ UNCHANGED <<url, server, acts>>
    BY <1>0, <1>7 DEF ContextReply, TypeOK
  <2>2. CASE url.record = List \/ ClassOf[m] = class
    <3>1. UNCHANGED <<class, item, original, loading, saving, requests>>
      BY <1>7, <2>2 DEF ContextReply, form
    <3>2. TypeOK'
      BY <1>0, <2>1, <3>1 DEF TypeOK
    <3>3. QED
      BY <1>0, <3>1, <3>2 DEF IInv, OwnItem, OwnRequests, LiveIn
  <2>3. CASE ~(url.record = List \/ ClassOf[m] = class)
    <3>1. Mount(url.model, ClassOf[m], url.record, Unmounted(requests))
      BY <1>7, <2>3 DEF ContextReply
    <3>2. /\ url.model \in Models /\ url.record \in Ids \cup {List} /\ ClassOf[m] \in Classes
      BY <1>0 DEF TypeOK
    <3>3. /\ Unmounted(requests) \subseteq Requests /\ OwnRequests(Unmounted(requests))
          /\ \A q \in Unmounted(requests) : ~q.live
      BY <1>0, UnmountedOwn DEF TypeOK
    <3>4. /\ class' = ClassOf[m] /\ item' \in Forms /\ original' \in Forms
          /\ loading' \in BOOLEAN /\ saving' \in BOOLEAN /\ requests' \subseteq Requests
          /\ OwnItem' /\ OwnRequests(requests') /\ LiveIn(requests', class')
      BY <3>1, <3>2, <3>3, MountOwn
    <3>5. TypeOK'
      BY <1>0, <2>1, <3>2, <3>4 DEF TypeOK
    <3>6. QED
      BY <3>4, <3>5 DEF IInv, OwnRequests, LiveIn
  <2>4. QED
    BY <2>2, <2>3
<1>8. ASSUME NEW q \in requests, LoadReply(q) PROVE IInv'
  <2>1. /\ q.kind = "load" /\ requests' = requests \ {q}
        /\ UNCHANGED <<url, context, fetches, class, saving, server, acts>>
    BY <1>8 DEF LoadReply
  <2>2. q.answer \in Forms /\ OwnText(q.answer, q.class) /\ (q.live => q.class = class)
    BY <1>0, <2>1 DEF OwnRequest, Requests
  <2>3. item' \in Forms /\ original' \in Forms /\ loading' \in BOOLEAN /\ saving' \in BOOLEAN
    BY <1>0, <1>8, <2>1, <2>2 DEF LoadReply, TypeOK
  <2>4. OwnItem'
    BY <1>0, <1>8, <2>1, <2>2 DEF LoadReply, OwnItem, OwnText
  <2>5. QED
    BY <2>1, <2>3, <2>4, RepliedOwn
<1>9. ASSUME NEW q \in requests, LoadFailed(q) \/ SaveFailed(q) PROVE IInv'
  <2>1. /\ requests' = requests \ {q}
        /\ UNCHANGED <<url, context, fetches, class, server, acts, item, original, loading>>
        /\ saving' \in BOOLEAN
    BY <1>0, <1>9 DEF LoadFailed, SaveFailed, form, TypeOK
  <2>2. QED
    BY <1>0, <2>1, RepliedOwn DEF TypeOK, OwnItem
<1>10. ASSUME NEW q \in requests, SaveReply(q) PROVE IInv'
  <2> DEFINE m == q.model
             r == q.answer.id
             saved == IF q.live THEN {q.item} ELSE {}
  <2>1. m \in Models /\ r \in Ids /\ q.item \in Forms
    BY <1>0 DEF Requests, Forms
  <2>2. saved \in SUBSET Forms /\ requests \ {q} \in SUBSET requests
    BY <2>1
  <2>3. CASE [model |-> m, record |-> r] # url
    <3>1. Goto(m, r, requests \ {q}, saved) /\ UNCHANGED <<context, server, acts>>
      BY <1>10, <2>3 DEF SaveReply
    <3> HIDE DEF m, r, saved
    <3>2. QED
      BY <2>1, <2>2, <3>1, GotoOwn
  <2>4. CASE [model |-> m, record |-> r] = url
    <3>1. /\ requests' = requests \ {q} /\ Settled(saved)
          /\ UNCHANGED <<url, context, fetches, class, item, loading, server, acts>>
      BY <1>10, <2>4 DEF SaveReply
    <3> HIDE DEF saved
    <3>2. original' \in Forms /\ saving' \in BOOLEAN
      BY <1>0, <2>2, <3>1 DEF Settled, TypeOK
    <3>3. OwnItem' /\ item' \in Forms /\ loading' \in BOOLEAN
      BY <1>0, <3>1 DEF OwnItem, TypeOK
    <3>4. QED
      BY <3>1, <3>2, <3>3, RepliedOwn
  <2>5. QED
    BY <2>3, <2>4
<1>11. ASSUME NEW q \in requests, PublishReply(q) PROVE IInv'
  <2>1. /\ requests' = requests \ {q}
        /\ UNCHANGED <<url, context, fetches, class, original, loading, saving, server, acts>>
    BY <1>11 DEF PublishReply
  <2>2. item \in Forms /\ q.item \in Forms
    BY <1>0 DEF TypeOK, Requests
  <2>3. item' \in Forms /\ item'.id = item.id /\ item'.text = item.text
    BY <1>11, <2>2 DEF PublishReply, Forms
  <2>4. OwnItem'
    BY <1>0, <2>1, <2>3 DEF OwnItem, OwnText
  <2>5. QED
    BY <1>0, <2>1, <2>3, <2>4, RepliedOwn DEF TypeOK
<1>12. CASE UNCHANGED vars
  BY <1>0, <1>12 DEF vars, IInv, TypeOK, OwnItem, OwnRequests, LiveIn
<1>13. QED
  BY <1>1, <1>2, <1>4, <1>5, <1>6, <1>7, <1>8, <1>9, <1>10, <1>11, <1>12
     DEF Next, User, Api, Reply

\* The invariant holds in every state.
LEMMA AlwaysOwn == Spec => []IInv
BY InitOwn, StepOwn, PTL DEF Spec

(***************************************************************************)
(* The theorems.                                                           *)
(***************************************************************************)
\* The page, its form and its requests are well typed, whatever was visited,
\* saved and answered (useEditContainer and the record pages).
THEOREM RecordPageTypeCorrect == Spec => []TypeOK
<1>1. IInv => TypeOK
  BY DEF IInv
<1>2. QED
  BY <1>1, AlwaysOwn, PTL

\* The page never shows or sends a text of one record as that of another, for
\* any models and records and any order of answers (mountedRef of
\* useEditContainer, the pages of ProjectModelFactory).
THEOREM TextsStay == Spec => []TextStaysWithItsRecord
<1>1. IInv => TextStaysWithItsRecord
  BY DEF IInv, OwnItem, OwnRequests, OwnRequest, TextStaysWithItsRecord
<1>2. QED
  BY <1>1, AlwaysOwn, PTL

\* The text on the page changes only in ways the user sees.
TextKept ==
  (class # NoModel /\ item.text # original.text /\ ~Kept) =>
    \/ acts' # acts
    \/ url' # url
    \/ class' # class
    \/ \E q \in requests \ requests' : q.kind = "load"

LEMMA StepKeepsText == IInv /\ [Next]_vars => [TextKept]_vars
<1> SUFFICES ASSUME IInv, Next, UNCHANGED <<acts, url, class>>, ~Kept,
                    class # NoModel
             PROVE  \E q \in requests \ requests' : q.kind = "load"
  BY DEF TextKept, vars
<1>0. TypeOK
  BY DEF IInv
<1>1. ASSUME NEW m \in Models, NEW r \in Ids \cup {List}, Visit(m, r) PROVE FALSE
  BY <1>1 DEF Visit, Goto
<1>2. CASE Type \/ Save \/ Publish
  BY <1>0, <1>2 DEF Type, Save, Publish, Act, TypeOK
<1>3. ASSUME NEW q \in requests, Serve(q) PROVE FALSE
  BY <1>3 DEF Serve, form, Kept
<1>4. ASSUME NEW m \in Models, ContextReply(m) PROVE FALSE
  BY <1>4 DEF ContextReply, form, Kept, Mount
<1>5. ASSUME NEW q \in requests, LoadReply(q)
      PROVE  \E p \in requests \ requests' : p.kind = "load"
  BY <1>5 DEF LoadReply
<1>6. ASSUME NEW q \in requests, LoadFailed(q) \/ SaveFailed(q) PROVE FALSE
  BY <1>6 DEF LoadFailed, SaveFailed, form, Kept
<1>7. ASSUME NEW q \in requests, SaveReply(q) PROVE FALSE
  BY <1>7 DEF SaveReply, Goto, Kept
<1>8. ASSUME NEW q \in requests, PublishReply(q) PROVE FALSE
  <2>1. item \in Forms
    BY <1>0 DEF TypeOK
  <2>2. item'.text = item.text
    BY <1>8, <2>1 DEF PublishReply, Forms
  <2>3. QED
    BY <2>2 DEF Kept
<1>9. QED
  BY <1>1, <1>2, <1>3, <1>4, <1>5, <1>6, <1>7, <1>8 DEF Next, User, Api, Reply

\* What was typed and not saved is lost only by leaving the record, opening the
\* page of another class, or the arrival of a record that was being loaded: an
\* answer to a save or to a publication never undoes it (useEditContainer).
THEOREM TypedTextStays == Spec => TypedTextIsKept
<1>1. IInv /\ [Next]_vars => [TextKept]_vars
  BY StepKeepsText
<1>2. Spec => [][TextKept]_vars
  BY <1>1, AlwaysOwn, PTL DEF Spec
<1>3. QED
  BY <1>2 DEF TypedTextIsKept, TextKept
=============================================================================
