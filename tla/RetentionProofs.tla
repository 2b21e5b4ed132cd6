--------------------------- MODULE RetentionProofs ----------------------------
(***************************************************************************)
(* Proofs about Retention for every set of requests, clients and prunes,   *)
(* with any cutoffs, and every bound on faults.                            *)
(***************************************************************************)
EXTENDS Retention, TLAPS

-----------------------------------------------------------------------------
(***************************************************************************)
(* The invariant.                                                          *)
(***************************************************************************)

\* What is left to do after so many deletes.
Todos ==
  {Statements,
   <<"rewrites", "request_judge", "request_views", "responses", "requests">>,
   <<"request_judge", "request_views", "responses", "requests">>,
   <<"request_views", "responses", "requests">>,
   <<"responses", "requests">>,
   <<"requests">>,
   <<>>}

InTodo(todo) == {todo[i] : i \in 1..Len(todo)}

\* The response a row shows is there, and not older than the request.
Linked(r) ==
  r.shows = "none" \/ \E s \in responses : /\ s.id = r.shows /\ s.request = r.request
                                           /\ CreatedAt[r.request] <= s.at

\* It is one that no prune takes.
LinkedToNew(r) == r.shows = "none" \/ \E s \in responses : s.id = r.shows /\ s.request = r.request /\ s.at = Now

TableInv ==
  /\ requests \subseteq Requests /\ tagged \subseteq requests
  /\ \A r \in children : r.table \in ChildTables /\ r.request \in requests /\ Linked(r)
  /\ \A s \in responses : s.at \in Nat

\* A client about to insert a rewrite has stored its response.
ClientInv ==
  /\ DOMAIN client = Clients /\ ask \in Asks
  /\ \A k \in Clients :
       /\ "at" \in DOMAIN client[k]
       /\ client[k].at = "inserting" /\ ask[k].is = "rewrites" =>
            \E s \in responses : s.id = k /\ s.request = ask[k].request /\ s.at = Now

\* What is in a table that c has done came in since.
Swept(c) ==
  \A r \in children : r.table \notin InTodo(prune[c].todo) /\ r.request \notin tagged /\ CreatedAt[r.request] < Cutoff[c] =>
    LinkedToNew(r) /\ r.request \in intruded[c]

SweptResponses(c) ==
  "responses" \notin InTodo(prune[c].todo) => \A s \in responses : s.at >= Cutoff[c] \/ s.request \in tagged

\* A prune that ended well has left none of its age, and none becomes of age.
LeftNone(c) == prune[c].at = "ok" => \A q \in requests \ tagged : ~(CreatedAt[q] < Cutoff[c])

PruneInv(c) ==
  /\ {"at", "todo"} \subseteq DOMAIN prune[c]
  /\ prune[c].todo \in Todos
  /\ prune[c].at \in {"running", "ok", "failed", "refused"}
  /\ prune[c].at = "running" => prune[c].todo # <<>>
  /\ prune[c].at = "ok" => prune[c].todo = <<>>
  /\ prune[c].at = "refused" => intruded[c] # {}
  /\ \A q \in offered[c] : CreatedAt[q] < Cutoff[c]
  /\ Swept(c) /\ SweptResponses(c) /\ LeftNone(c)

IInv ==
  /\ TableInv /\ ClientInv
  /\ DOMAIN prune = Commands /\ DOMAIN offered = Commands /\ DOMAIN intruded = Commands
  /\ \A c \in Commands : PruneInv(c)

-----------------------------------------------------------------------------
(***************************************************************************)
(* The order of the deletes.                                               *)
(***************************************************************************)

LEMMA TodoTail ==
  ASSUME NEW todo \in Todos, todo # <<>>
  PROVE  /\ Tail(todo) \in Todos
         /\ InTodo(todo) = {Head(todo)} \cup InTodo(Tail(todo))
         /\ Tail(todo) = <<>> <=> Len(todo) = 1
         /\ Head(todo) = "requests" => Tail(todo) = <<>>
         /\ Head(todo) \in {"responses", "requests"} => InTodo(todo) \cap ChildTables = {}
         /\ Head(todo) = "requests" => "responses" \notin InTodo(todo)
         /\ Len(todo) = 1 => Head(todo) = "requests"
<1>1. CASE todo = Statements
  BY <1>1 DEF Todos, Statements, InTodo, ChildTables
<1>2. CASE todo = <<"rewrites", "request_judge", "request_views", "responses", "requests">>
  BY <1>2 DEF Todos, InTodo, ChildTables
<1>3. CASE todo = <<"request_judge", "request_views", "responses", "requests">>
  BY <1>3 DEF Todos, InTodo, ChildTables
<1>4. CASE todo = <<"request_views", "responses", "requests">>
  BY <1>4 DEF Todos, InTodo, ChildTables
<1>5. CASE todo = <<"responses", "requests">>
  BY <1>5 DEF Todos, InTodo, ChildTables
<1>6. CASE todo = <<"requests">>
  BY <1>6 DEF Todos, InTodo, ChildTables
<1>7. QED
  BY <1>1, <1>2, <1>3, <1>4, <1>5, <1>6 DEF Todos

LEMMA InNone == InTodo(<<>>) = {}
  BY DEF InTodo

LEMMA InAll == InTodo(Statements) = ChildTables \cup {"responses", "requests"}
  BY DEF InTodo, Statements, ChildTables

LEMMA InitInv == Init => IInv
<1> SUFFICES ASSUME Init PROVE IInv
  OBVIOUS
<1>1. TableInv
  BY RetentionConstants DEF Init, TableInv, Linked
<1>2. ClientInv
  BY DEF Init, ClientInv
<1>3. ASSUME NEW c \in Commands
      PROVE  /\ {"at", "todo"} \subseteq DOMAIN prune[c] /\ prune[c].at = "running" /\ prune[c].todo = Statements
             /\ offered[c] = {} /\ intruded[c] = {}
  BY DEF Init
<1>4. Statements \in Todos /\ Statements # <<>>
  BY DEF Todos, Statements
<1>5. ASSUME NEW c \in Commands PROVE PruneInv(c)
  BY <1>1, <1>3, <1>4, InAll DEF PruneInv, Swept, SweptResponses, LeftNone, TableInv
<1>6. QED
  BY <1>1, <1>2, <1>5 DEF IInv, Init

-----------------------------------------------------------------------------
(***************************************************************************)
(* The steps of a prune.                                                   *)
(***************************************************************************)

LEMMA Moves ==
  ASSUME IInv, NEW c \in Commands, prune[c].at = "running", Deleted(c)
  PROVE  /\ DOMAIN prune' = Commands /\ \A d \in Commands \ {c} : prune'[d] = prune[d]
         /\ {"at", "todo"} \subseteq DOMAIN prune'[c]
         /\ prune'[c].todo = Tail(prune[c].todo) /\ prune'[c].todo \in Todos
         /\ prune'[c].at \in {"ok", "running"} /\ (prune'[c].at = "ok" <=> prune'[c].todo = <<>>)
         /\ prune'[c].at = "ok" => Head(prune[c].todo) = "requests"
<1>1. prune[c].todo \in Todos /\ prune[c].todo # <<>> /\ {"at", "todo"} \subseteq DOMAIN prune[c]
  BY DEF IInv, PruneInv
<1> DEFINE step == IF Len(prune[c].todo) = 1 THEN "ok" ELSE "running"
<1>2. prune' = [prune EXCEPT ![c].todo = Tail(@), ![c].at = step]
  BY DEF Deleted
<1>3. (step = "ok" <=> Len(prune[c].todo) = 1) /\ step \in {"ok", "running"}
  OBVIOUS
<1> HIDE DEF step
<1>4. /\ DOMAIN prune' = Commands /\ \A d \in Commands \ {c} : prune'[d] = prune[d]
      /\ {"at", "todo"} \subseteq DOMAIN prune'[c]
      /\ prune'[c].todo = Tail(prune[c].todo) /\ prune'[c].at = step
  BY <1>1, <1>2 DEF IInv
<1>5. QED
  BY <1>1, <1>3, <1>4, TodoTail

\* What a prune leaves as it is, besides.
Around(c) ==
  /\ UNCHANGED <<tagged, intruded, ask, client>>
  /\ offered' = IF Began(c) THEN offered ELSE [offered EXCEPT ![c] = Eligible(c)]

LEMMA OfferedKept ==
  ASSUME IInv, NEW c \in Commands, Around(c)
  PROVE  DOMAIN offered' = Commands /\ \A d \in Commands : \A q \in offered'[d] : CreatedAt[q] < Cutoff[d]
<1>1. \A d \in Commands : \A q \in offered[d] : CreatedAt[q] < Cutoff[d]
  BY DEF IInv, PruneInv
<1>2. CASE Began(c)
  BY <1>1, <1>2 DEF IInv, Around
<1>3. CASE ~Began(c)
  <2>1. offered' = [offered EXCEPT ![c] = Eligible(c)]
    BY <1>3 DEF Around
  <2>2. \A q \in Eligible(c) : CreatedAt[q] < Cutoff[c]
    BY DEF Eligible
  <2>3. QED
    BY <1>1, <2>1, <2>2 DEF IInv
<1>4. QED
  BY <1>2, <1>3

LEMMA DeleteChildrenKeeps ==
  ASSUME IInv, NEW c \in Commands, prune[c].at = "running", NEW t, t = Head(prune[c].todo),
         DeleteChildren(c, t), Around(c)
  PROVE  IInv'
<1> USE DEF Around
<1>1. UNCHANGED <<requests, responses, tagged, intruded, ask, client>> /\ children' \subseteq children
  BY DEF DeleteChildren
<1>2. TableInv' /\ ClientInv'
  BY <1>1 DEF IInv, TableInv, ClientInv, Linked
<1>3. prune[c].todo \in Todos /\ prune[c].todo # <<>>
  BY DEF IInv, PruneInv
<1>4. InTodo(prune[c].todo) = {t} \cup InTodo(prune'[c].todo) /\ t \in ChildTables /\ prune'[c].at = "running"
  BY <1>3, Moves, TodoTail DEF DeleteChildren, ChildTables
<1>5. Swept(c)'
  <2> SUFFICES ASSUME NEW r \in children', r.table \notin InTodo(prune'[c].todo), r.request \notin tagged,
                      CreatedAt[r.request] < Cutoff[c]
               PROVE  LinkedToNew(r) /\ r.request \in intruded[c]
    BY <1>1 DEF Swept, LinkedToNew
  <2>1. r.request \in Eligible(c)
    BY <1>1 DEF Eligible, IInv, TableInv
  <2>2. r.table # t
    BY <2>1 DEF DeleteChildren
  <2>3. r.table \notin InTodo(prune[c].todo)
    BY <1>4, <2>2
  <2>4. QED
    BY <1>1, <2>3 DEF IInv, PruneInv, Swept
<1>6. PruneInv(c)'
  <2>1. SweptResponses(c)'
    BY <1>1, <1>4 DEF IInv, PruneInv, SweptResponses, ChildTables
  <2>2. QED
    BY <1>4, <1>5, <2>1, Moves, OfferedKept DEF DeleteChildren, PruneInv, LeftNone
<1>7. ASSUME NEW d \in Commands, d # c PROVE PruneInv(d)'
  <2>1. prune'[d] = prune[d] /\ PruneInv(d)
    BY <1>7, Moves DEF DeleteChildren, IInv
  <2>2. Swept(d)'
    BY <1>1, <2>1 DEF PruneInv, Swept, LinkedToNew
  <2>3. QED
    BY <1>1, <2>1, <2>2, OfferedKept DEF PruneInv, SweptResponses, LeftNone
<1>8. QED
  BY <1>1, <1>2, <1>6, <1>7, Moves, OfferedKept DEF DeleteChildren, IInv

LEMMA DeleteResponsesKeeps ==
  ASSUME IInv, NEW c \in Commands, prune[c].at = "running", NEW t, t = Head(prune[c].todo),
         DeleteResponses(c, t), Around(c)
  PROVE  IInv'
<1> USE DEF Around
<1>1. /\ UNCHANGED <<requests, children, tagged, intruded, ask, client>> /\ responses' \subseteq responses
      /\ \A s \in responses : s.at >= Cutoff[c] \/ s.request \in tagged <=> s \in responses'
  BY DEF DeleteResponses
<1>2. Cutoff[c] \in Nat /\ Now \in Nat /\ Cutoff[c] <= Now
      /\ \A q \in Requests : CreatedAt[q] \in Nat /\ CreatedAt[q] <= Now
  BY RetentionConstants
<1>3. prune[c].todo \in Todos /\ prune[c].todo # <<>>
  BY DEF IInv, PruneInv
<1>4. /\ InTodo(prune[c].todo) = {t} \cup InTodo(prune'[c].todo) /\ t = "responses" /\ prune'[c].at = "running"
      /\ InTodo(prune[c].todo) \cap ChildTables = {}
  BY <1>3, Moves, TodoTail DEF DeleteResponses
<1>5. \A s \in responses : s.at = Now => s \in responses'
  BY <1>1, <1>2
<1>6. ASSUME NEW r \in children, LinkedToNew(r) PROVE LinkedToNew(r)'
  BY <1>5, <1>6 DEF LinkedToNew
<1>7. ASSUME NEW r \in children PROVE Linked(r)'
  <2>1. r.table \in ChildTables /\ r.request \in Requests /\ Linked(r)
    BY DEF IInv, TableInv
  <2>2. CASE r.shows = "none"
    BY <2>2 DEF Linked
  <2>3. CASE r.shows # "none"
    <3>1. PICK s \in responses : s.id = r.shows /\ s.request = r.request /\ CreatedAt[r.request] <= s.at /\ s.at \in Nat
      BY <2>1, <2>3 DEF Linked, IInv, TableInv
    <3>2. CASE s \in responses'
      BY <3>1, <3>2 DEF Linked
    <3>3. CASE s \notin responses'
      <4>1. r.request \notin tagged /\ CreatedAt[r.request] < Cutoff[c]
        BY <1>1, <1>2, <2>1, <3>1, <3>3
      <4>2. LinkedToNew(r)
        BY <1>4, <2>1, <4>1 DEF IInv, PruneInv, Swept
      <4>3. PICK new \in responses' : new.id = r.shows /\ new.request = r.request /\ new.at = Now
        BY <1>6, <2>3, <4>2 DEF LinkedToNew
      <4>4. QED
        BY <1>2, <2>1, <4>3 DEF Linked
    <3>4. QED
      BY <3>2, <3>3
  <2>4. QED
    BY <2>2, <2>3
<1>8. TableInv'
  BY <1>1, <1>7 DEF IInv, TableInv
<1>9. ClientInv'
  BY <1>1, <1>5 DEF IInv, ClientInv
<1>10. PruneInv(c)'
  <2>1. Swept(c)'
    BY <1>1, <1>4, <1>6 DEF IInv, PruneInv, Swept, TableInv
  <2>2. SweptResponses(c)'
    BY <1>1 DEF SweptResponses
  <2>3. QED
    BY <1>4, <2>1, <2>2, Moves, OfferedKept DEF DeleteResponses, PruneInv, LeftNone
<1>11. ASSUME NEW d \in Commands, d # c PROVE PruneInv(d)'
  <2>1. prune'[d] = prune[d] /\ PruneInv(d)
    BY <1>11, Moves DEF DeleteResponses, IInv
  <2>2. Swept(d)'
    BY <1>1, <1>6, <2>1 DEF PruneInv, Swept
  <2>3. QED
    BY <1>1, <2>1, <2>2, OfferedKept DEF PruneInv, SweptResponses, LeftNone
<1>12. QED
  BY <1>1, <1>8, <1>9, <1>10, <1>11, Moves, OfferedKept DEF DeleteResponses, IInv

\* A prune that ends other than well.
LEMMA EndsKeeps ==
  ASSUME IInv, NEW c \in Commands, NEW how \in {"failed", "refused"}, EndsPrune(c, how), Around(c),
         UNCHANGED <<requests, children, responses>>,
         how = "refused" => intruded[c] # {}
  PROVE  IInv'
<1> USE DEF Around
<1>1. /\ DOMAIN prune' = Commands /\ \A d \in Commands \ {c} : prune'[d] = prune[d]
      /\ {"at", "todo"} \subseteq DOMAIN prune'[c]
      /\ prune'[c].todo = prune[c].todo /\ prune'[c].at = how
  BY DEF EndsPrune, IInv, PruneInv
<1>2. TableInv' /\ ClientInv'
  BY DEF IInv, TableInv, ClientInv, Linked
<1>3. ASSUME NEW d \in Commands PROVE PruneInv(d)'
  <2>1. PruneInv(d) /\ prune'[d].todo = prune[d].todo
    BY <1>1 DEF IInv
  <2>2. Swept(d)' /\ SweptResponses(d)'
    BY <2>1 DEF PruneInv, Swept, SweptResponses, LinkedToNew
  <2>3. CASE d = c
    BY <1>1, <2>1, <2>2, <2>3, OfferedKept DEF PruneInv, LeftNone
  <2>4. CASE d # c
    BY <1>1, <2>1, <2>2, <2>4, OfferedKept DEF PruneInv, LeftNone
  <2>5. QED
    BY <2>3, <2>4
<1>4. QED
  BY <1>1, <1>2, <1>3, OfferedKept DEF IInv

LEMMA DeleteRequestsKeeps ==
  ASSUME IInv, NEW c \in Commands, prune[c].at = "running", NEW t, t = Head(prune[c].todo),
         DeleteRequests(c, t), Around(c)
  PROVE  IInv'
<1>1. /\ t = "requests" /\ UNCHANGED <<children, responses>>
      /\ IF OfRequests(children, Eligible(c)) = {}
         THEN requests' = requests \ Eligible(c) /\ Deleted(c)
         ELSE EndsPrune(c, "refused") /\ UNCHANGED requests
  BY DEF DeleteRequests
<1>2. prune[c].todo \in Todos /\ prune[c].todo # <<>> /\ PruneInv(c)
  BY DEF IInv, PruneInv
<1>3. /\ InTodo(prune[c].todo) \cap ChildTables = {} /\ "responses" \notin InTodo(prune[c].todo)
      /\ Tail(prune[c].todo) = <<>>
  BY <1>1, <1>2, TodoTail
<1>4. CASE OfRequests(children, Eligible(c)) # {}
  <2>1. PICK r \in children : r.request \in Eligible(c)
    BY <1>4 DEF OfRequests
  <2>2. r.table \notin InTodo(prune[c].todo) /\ r.request \notin tagged /\ CreatedAt[r.request] < Cutoff[c]
    BY <1>3, <2>1 DEF Eligible, IInv, TableInv
  <2>3. intruded[c] # {}
    BY <1>2, <2>2 DEF PruneInv, Swept
  <2>4. QED
    BY <1>1, <1>4, <2>3, EndsKeeps
<1>5. CASE OfRequests(children, Eligible(c)) = {}
  <2> USE DEF Around
  <2>1. requests' = requests \ Eligible(c) /\ Deleted(c)
    BY <1>1, <1>5
  <2>2. \A r \in children : r.request \notin Eligible(c)
    BY <1>5 DEF OfRequests
  <2>3. TableInv'
    BY <1>1, <2>1, <2>2 DEF IInv, TableInv, Linked, Eligible
  <2>4. ClientInv'
    BY <1>1 DEF IInv, ClientInv
  <2>5. prune'[c].todo = <<>> /\ prune'[c].at = "ok"
    BY <1>3, <2>1, Moves
  <2>6. PruneInv(c)'
    <3>1. Swept(c)'
      BY <1>1, <1>2, <1>3 DEF IInv, TableInv, PruneInv, Swept, LinkedToNew
    <3>2. SweptResponses(c)'
      BY <1>1, <1>2, <1>3 DEF PruneInv, SweptResponses
    <3>3. LeftNone(c)'
      BY <2>1 DEF LeftNone, Eligible
    <3>4. QED
      BY <2>1, <2>5, <3>1, <3>2, <3>3, Moves, OfferedKept DEF PruneInv
  <2>7. ASSUME NEW d \in Commands, d # c PROVE PruneInv(d)'
    <3>1. prune'[d] = prune[d] /\ PruneInv(d)
      BY <2>1, <2>7, Moves DEF IInv
    <3>2. Swept(d)' /\ SweptResponses(d)'
      BY <1>1, <3>1 DEF PruneInv, Swept, SweptResponses, LinkedToNew
    <3>3. LeftNone(d)'
      BY <2>1, <3>1 DEF PruneInv, LeftNone
    <3>4. QED
      BY <3>1, <3>2, <3>3, OfferedKept DEF PruneInv
  <2>8. QED
    BY <2>1, <2>3, <2>4, <2>6, <2>7, Moves, OfferedKept DEF IInv
<1>6. QED
  BY <1>4, <1>5

LEMMA PruneKeeps ==
  ASSUME IInv, NEW c \in Commands, Prune(c)
  PROVE  IInv'
<1>1. prune[c].at = "running" /\ Around(c)
  BY DEF Prune, Running, Around
<1>2. PICK ok \in BOOLEAN :
        IF ok
        THEN LET t == Head(prune[c].todo) IN
             DeleteChildren(c, t) \/ DeleteResponses(c, t) \/ DeleteRequests(c, t)
        ELSE EndsPrune(c, "failed") /\ UNCHANGED <<requests, children, responses>>
  BY DEF Prune
<1>3. CASE ok
  BY <1>1, <1>2, <1>3, DeleteChildrenKeeps, DeleteResponsesKeeps, DeleteRequestsKeeps
<1>4. CASE ~ok
  BY <1>1, <1>2, <1>4, EndsKeeps
<1>5. QED
  BY <1>3, <1>4

-----------------------------------------------------------------------------
(***************************************************************************)
(* The steps of a client.                                                  *)
(***************************************************************************)

\* A step of the client that changes no table.
LEMMA ClientOnly ==
  ASSUME IInv, NEW k \in Clients,
         UNCHANGED <<requests, children, responses, tagged, prune, offered, intruded, ask>>,
         DOMAIN client' = Clients, \A m \in Clients \ {k} : client'[m] = client[m],
         "at" \in DOMAIN client'[k],
         client'[k].at = "inserting" => ask[k].is # "rewrites"
  PROVE  IInv'
<1>1. TableInv'
  BY DEF IInv, TableInv, Linked
<1>2. ClientInv'
  <2>1. ASSUME NEW m \in Clients
        PROVE  /\ "at" \in DOMAIN client'[m]
               /\ client'[m].at = "inserting" /\ ask[m].is = "rewrites" =>
                    \E s \in responses : s.id = m /\ s.request = ask[m].request /\ s.at = Now
    BY DEF IInv, ClientInv
  <2>2. QED
    BY <2>1 DEF IInv, ClientInv
<1>3. \A c \in Commands : PruneInv(c)'
  BY DEF IInv, PruneInv, Swept, SweptResponses, LeftNone, LinkedToNew
<1>4. QED
  BY <1>1, <1>2, <1>3 DEF IInv

LEMMA ClientGone ==
  ASSUME IInv, NEW k \in Clients, NEW step, ClientGo(k, step)
  PROVE  /\ DOMAIN client' = Clients /\ \A m \in Clients \ {k} : client'[m] = client[m]
         /\ "at" \in DOMAIN client'[k] /\ client'[k].at = step
  BY DEF ClientGo, IInv, ClientInv

LEMMA CheckKeeps ==
  ASSUME IInv, NEW k \in Clients, Check(k),
         UNCHANGED <<requests, children, tagged, prune, offered, intruded, ask>>
  PROVE  IInv'
<1>1. \/ ClientGo(k, "refused")
      \/ ask[k].is # "rewrites" /\ ClientGo(k, "inserting")
      \/ client' = [client EXCEPT ![k].at = "reading", ![k].reads = Reads]
  BY DEF Check
<1>2. UNCHANGED responses
  BY DEF Check
<1>3. CASE client' = [client EXCEPT ![k].at = "reading", ![k].reads = Reads]
  <2>1. /\ DOMAIN client' = Clients /\ \A m \in Clients \ {k} : client'[m] = client[m]
        /\ "at" \in DOMAIN client'[k] /\ client'[k].at = "reading"
    BY <1>3 DEF IInv, ClientInv
  <2>2. QED
    BY <1>2, <2>1, ClientOnly
<1>4. QED
  BY <1>1, <1>2, <1>3, ClientGone, ClientOnly

LEMMA ReadKeeps ==
  ASSUME IInv, NEW k \in Clients, Read(k),
         UNCHANGED <<requests, children, tagged, prune, offered, intruded, ask>>
  PROVE  IInv'
<1>1. UNCHANGED responses
  BY DEF Read
<1> DEFINE next == IF Len(client[k].reads) = 1 THEN "drafting" ELSE "reading"
           found == {r.shows : r \in {x \in OfAsk(k) : x.table = Head(client[k].reads)}} \ {"none"}
<1>2. \/ ClientGo(k, "refused")
      \/ client' = [client EXCEPT ![k].at = next, ![k].reads = Tail(@),
                    ![k].draft = IF Head(client[k].reads) = ask[k].source THEN found ELSE @]
  BY DEF Read
<1>3. next # "inserting"
  OBVIOUS
<1> HIDE DEF next, found
<1>4. CASE client' = [client EXCEPT ![k].at = next, ![k].reads = Tail(@),
                      ![k].draft = IF Head(client[k].reads) = ask[k].source THEN found ELSE @]
  <2>1. /\ DOMAIN client' = Clients /\ \A m \in Clients \ {k} : client'[m] = client[m]
        /\ "at" \in DOMAIN client'[k] /\ client'[k].at = next
    BY <1>4 DEF IInv, ClientInv
  <2>2. QED
    BY <1>1, <1>3, <2>1, ClientOnly
<1>5. QED
  BY <1>1, <1>2, <1>4, ClientGone, ClientOnly

LEMMA DraftKeeps ==
  ASSUME IInv, NEW k \in Clients, Draft(k) \/ Rewritten(k),
         UNCHANGED <<requests, children, tagged, prune, offered, intruded, ask>>
  PROVE  IInv'
<1>1. \E step \in {"calling", "storing", "refused"} : ClientGo(k, step)
  BY DEF Draft, Rewritten
<1>2. UNCHANGED responses
  BY DEF Draft, Rewritten
<1>3. QED
  BY <1>1, <1>2, ClientGone, ClientOnly

LEMMA StoreResponseKeeps ==
  ASSUME IInv, NEW k \in Clients, StoreResponse(k),
         UNCHANGED <<requests, children, tagged, prune, offered, intruded, ask>>
  PROVE  IInv'
<1> DEFINE new == [id |-> k, request |-> ask[k].request, at |-> Now]
<1>1. \/ ClientGo(k, "refused") /\ UNCHANGED responses
      \/ ClientGo(k, "inserting") /\ responses' = responses \cup {new}
  BY DEF StoreResponse
<1>2. CASE ClientGo(k, "refused") /\ UNCHANGED responses
  BY <1>2, ClientGone, ClientOnly
<1>3. CASE ClientGo(k, "inserting") /\ responses' = responses \cup {new}
  <2>1. Now \in Nat /\ \A c \in Commands : Cutoff[c] \in Nat /\ Cutoff[c] <= Now
    BY RetentionConstants
  <2>2. TableInv'
    BY <1>3, <2>1 DEF IInv, TableInv, Linked
  <2>3. ClientInv'
    <3>1. ASSUME NEW m \in Clients, m # k
          PROVE  /\ "at" \in DOMAIN client'[m]
                 /\ client'[m].at = "inserting" /\ ask[m].is = "rewrites" =>
                      \E s \in responses' : s.id = m /\ s.request = ask[m].request /\ s.at = Now
      BY <1>3, <3>1, ClientGone DEF IInv, ClientInv
    <3>2. new \in responses' /\ new.id = k /\ new.request = ask[k].request /\ new.at = Now
      BY <1>3
    <3>3. "at" \in DOMAIN client'[k] /\ DOMAIN client' = Clients
      BY <1>3, ClientGone
    <3>4. QED
      BY <3>1, <3>2, <3>3 DEF IInv, ClientInv
  <2>4. ASSUME NEW c \in Commands PROVE PruneInv(c)'
    <3>1. PruneInv(c)
      BY DEF IInv
    <3>2. Swept(c)'
      BY <1>3, <3>1 DEF PruneInv, Swept, LinkedToNew
    <3>3. SweptResponses(c)'
      BY <1>3, <2>1, <3>1 DEF PruneInv, SweptResponses
    <3>4. QED
      BY <3>1, <3>2, <3>3 DEF PruneInv, LeftNone
  <2>5. QED
    BY <2>2, <2>3, <2>4 DEF IInv
<1>4. QED
  BY <1>1, <1>2, <1>3

LEMMA InsertKeeps ==
  ASSUME IInv, NEW k \in Clients, Insert(k), UNCHANGED <<requests, prune, offered, ask>>
  PROVE  IInv'
<1> DEFINE q == ask[k].request
           stored == /\ q \in requests /\ ClientGo(k, "ok")
                     /\ IF ask[k].is = "feedback"
                        THEN tagged' = tagged \cup {q} /\ UNCHANGED children
                        ELSE children' = children \cup {NewChild(k)} /\ UNCHANGED tagged
                     /\ intruded' = Intruded(q)
<1>1. /\ client[k].at = "inserting" /\ UNCHANGED responses
      /\ stored \/ (ClientGo(k, "refused") /\ UNCHANGED <<children, tagged, intruded>>)
  BY DEF Insert, At
<1>2. CASE ClientGo(k, "refused") /\ UNCHANGED <<children, tagged, intruded>>
  BY <1>1, <1>2, ClientGone, ClientOnly
<1>3. CASE stored
  <2>1. tagged \subseteq tagged' /\ tagged' \subseteq requests
    BY <1>3 DEF IInv, TableInv
  <2>2. DOMAIN intruded' = Commands
        /\ \A c \in Commands : intruded[c] \subseteq intruded'[c] /\ (Began(c) => q \in intruded'[c])
    BY <1>3 DEF Intruded
  \* The row that is added, if any.
  <2>3. ASSUME NEW r \in children', r \notin children
        PROVE  r.request = q /\ r.table \in ChildTables /\ LinkedToNew(r)
    <3>1. r = NewChild(k) /\ ask[k].is # "feedback"
      BY <1>3, <2>3
    <3>2. ask[k].is \in {"sent_messages", "rewrites"}
      BY <3>1, RetentionConstants DEF IInv, ClientInv
    <3>3. r.request = q /\ r.table = ask[k].is /\ r.shows = IF ask[k].is = "rewrites" THEN k ELSE "none"
      BY <3>1 DEF NewChild
    <3>4. LinkedToNew(r)
      BY <1>1, <3>3 DEF IInv, ClientInv, LinkedToNew
    <3>5. QED
      BY <3>2, <3>3, <3>4 DEF ChildTables
  <2>4. CreatedAt[q] <= Now /\ q \in Requests
    BY <1>3, RetentionConstants DEF IInv, TableInv
  <2>5. TableInv'
    <3>1. ASSUME NEW r \in children' PROVE r.table \in ChildTables /\ r.request \in requests /\ Linked(r)'
      BY <1>1, <1>3, <2>3, <2>4 DEF IInv, TableInv, Linked, LinkedToNew
    <3>2. QED
      BY <1>1, <2>1, <3>1 DEF IInv, TableInv
  <2>6. ClientInv'
    <3>1. ASSUME NEW m \in Clients
          PROVE  /\ "at" \in DOMAIN client'[m]
                 /\ client'[m].at = "inserting" => client[m].at = "inserting"
      BY <1>3, ClientGone DEF IInv, ClientInv
    <3>2. QED
      BY <1>1, <1>3, <3>1, ClientGone DEF IInv, ClientInv
  <2>7. ASSUME NEW c \in Commands PROVE PruneInv(c)'
    <3>1. PruneInv(c)
      BY DEF IInv
    <3>2. Swept(c)'
      <4> SUFFICES ASSUME NEW r \in children', r.table \notin InTodo(prune[c].todo), r.request \notin tagged',
                          CreatedAt[r.request] < Cutoff[c]
                   PROVE  LinkedToNew(r) /\ r.request \in intruded'[c]
        BY <1>1 DEF Swept, LinkedToNew
      <4>1. CASE r \in children
        BY <2>1, <2>2, <3>1, <4>1 DEF PruneInv, Swept
      <4>2. CASE r \notin children
        <5>1. r.request = q /\ r.table \in ChildTables /\ LinkedToNew(r)
          BY <2>3, <4>2
        <5>2. Began(c)
          BY <5>1, InAll DEF Began
        <5>3. QED
          BY <2>2, <5>1, <5>2
      <4>3. QED
        BY <4>1, <4>2
    <3>3. SweptResponses(c)'
      BY <1>1, <2>1, <3>1 DEF PruneInv, SweptResponses
    <3>4. LeftNone(c)'
      BY <2>1, <3>1 DEF PruneInv, LeftNone
    <3>5. QED
      BY <2>2, <3>1, <3>2, <3>3, <3>4 DEF PruneInv
  <2>8. QED
    BY <2>2, <2>5, <2>6, <2>7 DEF IInv
<1>4. QED
  BY <1>1, <1>2, <1>3

LEMMA NextInv == IInv /\ [Next]_vars => IInv'
<1> SUFFICES ASSUME IInv, [Next]_vars PROVE IInv'
  OBVIOUS
<1>1. CASE UNCHANGED <<requests, children, responses, tagged, prune, offered, intruded, ask, client>>
  BY <1>1 DEF IInv, TableInv, ClientInv, Linked, LinkedToNew, PruneInv, Swept, SweptResponses, LeftNone
<1>2. ASSUME NEW c \in Commands, Prune(c) PROVE IInv'
  BY <1>2, PruneKeeps
<1>3. ASSUME NEW c \in Commands, Kill(c) PROVE IInv'
  BY <1>1, <1>3 DEF Kill
<1>4. ASSUME NEW k \in Clients, Handle(k) PROVE IInv'
  <2>1. UNCHANGED <<requests, prune, offered, ask>>
    BY <1>4 DEF Handle
  <2>2. CASE Insert(k)
    BY <2>1, <2>2, InsertKeeps
  <2>3. CASE /\ Check(k) \/ Read(k) \/ Draft(k) \/ Rewritten(k) \/ StoreResponse(k)
             /\ UNCHANGED <<children, tagged, intruded>>
    BY <2>1, <2>3, CheckKeeps, ReadKeeps, DraftKeeps, StoreResponseKeeps
  <2>4. QED
    BY <1>4, <2>2, <2>3 DEF Handle
<1>5. QED
  BY <1>1, <1>2, <1>3, <1>4 DEF Next, AllEnded, vars

LEMMA Invariant == Spec => []IInv
  BY InitInv, NextInv, PTL DEF Spec

-----------------------------------------------------------------------------
(***************************************************************************)
(* What holds of every prune.                                              *)
(***************************************************************************)

\* PruneProduction and the handlers keep the types of the tables and of what a
\* prune has come to.
THEOREM TypeCorrect == Spec => []RetentionTypeOK
<1>1. IInv => RetentionTypeOK
  BY DEF IInv, TableInv, PruneInv, RetentionTypeOK
<1>2. QED
  BY <1>1, Invariant, PTL

\* PruneProduction (prune.go): whatever is deleted and whatever the server
\* inserts meanwhile, each row has its request and the response it shows.
THEOREM NothingDanglesHolds == Spec => []NothingDangles
<1>1. IInv => NothingDangles
  BY DEF IInv, TableInv, Linked, NothingDangles
<1>2. QED
  BY <1>1, Invariant, PTL

\* PruneProduction without an error: what was of age and had no feedback is
\* gone from all six tables, unless feedback came in.
THEOREM OkMeansGoneHolds == Spec => []OkMeansGone
<1>1. IInv => OkMeansGone
  <2> SUFFICES ASSUME IInv, NEW c \in Commands, prune[c].at = "ok", NEW q \in offered[c] \ tagged
               PROVE  /\ q \notin requests /\ OfRequests(children, {q}) = {}
                      /\ \A r \in OfRequests(responses, {q}) : r.at >= Cutoff[c]
    BY DEF OkMeansGone
  <2>1. PruneInv(c) /\ TableInv
    BY DEF IInv
  <2>2. q \notin requests
    BY <2>1 DEF PruneInv, LeftNone
  <2>3. OfRequests(children, {q}) = {}
    BY <2>1, <2>2 DEF TableInv, OfRequests
  <2>4. \A r \in responses : r.at >= Cutoff[c] \/ r.request \in tagged
    BY <2>1, InNone DEF PruneInv, SweptResponses
  <2>5. QED
    BY <2>2, <2>3, <2>4 DEF OfRequests
<1>2. QED
  BY <1>1, Invariant, PTL

\* PruneProduction: its deletes are in an order that satisfies the foreign
\* keys, so that it can always be run again.
THEOREM RefusedForARowHolds == Spec => []RefusedForARow
<1>1. IInv => RefusedForARow
  BY DEF IInv, PruneInv, RefusedForARow
<1>2. QED
  BY <1>1, Invariant, PTL

\* The condition that each of the six deletes repeats: a request with feedback
\* loses nothing.
THEOREM FeedbackKeepsTheRestHolds == Spec => FeedbackKeepsTheRest
<1> DEFINE Kept == \A q \in tagged : /\ q \in tagged'
                                     /\ OfRequests(children, {q}) \subseteq children'
                                     /\ OfRequests(responses, {q}) \subseteq responses'
<1>1. [Next]_vars => [Kept]_vars
  <2> SUFFICES ASSUME [Next]_vars PROVE Kept \/ UNCHANGED vars
    OBVIOUS
  <2>1. ASSUME NEW c \in Commands, Prune(c) PROVE Kept
    <3>1. UNCHANGED tagged /\ \E t : \/ DeleteChildren(c, t) \/ DeleteResponses(c, t) \/ DeleteRequests(c, t)
                                     \/ UNCHANGED <<children, responses>>
      BY <2>1 DEF Prune
    <3>2. QED
      BY <3>1 DEF DeleteChildren, DeleteResponses, DeleteRequests, Eligible, OfRequests
  <2>2. ASSUME NEW c \in Commands, Kill(c) PROVE Kept
    BY <2>2 DEF Kill, OfRequests
  <2>3. ASSUME NEW k \in Clients, Handle(k) PROVE Kept
    <3>1. tagged \subseteq tagged' /\ children \subseteq children' /\ responses \subseteq responses'
      BY <2>3 DEF Handle, Insert, Check, Read, Draft, Rewritten, StoreResponse
    <3>2. QED
      BY <3>1 DEF OfRequests
  <2>4. QED
    BY <2>1, <2>2, <2>3 DEF Next, AllEnded
<1>2. QED
  BY <1>1, PTL DEF Spec, FeedbackKeepsTheRest
=============================================================================
