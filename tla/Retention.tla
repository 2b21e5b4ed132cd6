------------------------------ MODULE Retention ------------------------------
(***************************************************************************)
(* `council db prune` (internal/store/prune.go), six deletes without a     *)
(* transaction, while the clients of the server (internal/httpapi) rewrite *)
(* answers, record sent messages and give feedback on old requests.        *)
(*                                                                         *)
(* A step is one statement, or the call of the model.  The database checks *)
(* foreign keys: a row cannot be inserted for a request that is gone, nor  *)
(* a request deleted that has rows.  The link from a row to the response   *)
(* it shows is no foreign key: only the order of the deletes keeps it.     *)
(***************************************************************************)
EXTENDS SharedDatabase, SequencesExt

CONSTANTS
  Requests,
  Clients,
  Asks,       \* what the clients may ask for, see ask
  Cutoff,     \* per command: what it prunes is older than this
  CreatedAt,  \* per request
  Now,        \* when all that clients insert is created
  Children,   \* the rows of requests there are at first
  Responses   \* the responses there are at first

ChildTables == {"sent_messages", "rewrites", "request_judge", "request_views"}

ASSUME RetentionConstants ==
  /\ \A c \in Commands : Cutoff[c] \in Nat /\ Cutoff[c] <= Now
  /\ \A q \in Requests : CreatedAt[q] \in Nat /\ CreatedAt[q] <= Now
  /\ Now \in Nat
  /\ \A p \in Asks : \A k \in Clients :
       p[k].request \in Requests /\ p[k].is \in {"feedback", "sent_messages", "rewrites"}
  /\ \A r \in Responses : r.at \in Nat /\ CreatedAt[r.request] <= r.at
  /\ \A r \in Children : r.table \in ChildTables /\ r.request \in Requests
  /\ \A r \in Children : r.shows = "none" \/ \E s \in Responses : s.id = r.shows /\ s.request = r.request

VARIABLES
  requests,  \* those that have a row
  children,  \* rows [table, request, shows], shows is a response or "none"
  responses, \* rows [id, request, at]
  tagged,    \* requests with a feedback row
  prune,     \* per command: the deletes it has to make, how it ended
  offered,   \* history: the requests a command was to delete when it began
  intruded,  \* history: the requests that got a row after a command began
  ask,       \* per client: the call it makes, [is, request, source]
  client     \* per client: the step of its call and what it has read

vars == <<requests, children, responses, tagged, prune, offered, intruded, ask, client, faults, killed>>

\* Mutant: the responses first.
ResponsesFirst == <<"responses", "sent_messages", "rewrites", "request_judge", "request_views", "requests">>

Statements == <<"sent_messages", "rewrites", "request_judge", "request_views", "responses", "requests">>

Init ==
  /\ requests = Requests
  /\ children = Children /\ responses = Responses
  /\ tagged = {}
  /\ prune = [c \in Commands |-> [at |-> "running", todo |-> Statements]]
  /\ offered = [c \in Commands |-> {}] /\ intruded = [c \in Commands |-> {}]
  /\ ask \in Asks
  /\ client = [k \in Clients |-> [at |-> "checking", reads |-> <<>>, draft |-> {}]]
  /\ faults = 0 /\ killed = {}

(***************************************************************************)
(* PruneProduction.                                                        *)
(***************************************************************************)

Running(c) == Runs(c) /\ prune[c].at = "running"

Began(c) == prune[c].todo # Statements

\* Mutant: the requests are picked once, by the first statement.
EligibleAtFirst(c) ==
  IF Began(c) THEN offered[c] ELSE {q \in requests : CreatedAt[q] < Cutoff[c]} \ tagged

\* Each delete looks for feedback anew.
Eligible(c) == {q \in requests : CreatedAt[q] < Cutoff[c]} \ tagged

OfRequests(rows, S) == {r \in rows : r.request \in S}

EndsPrune(c, how) == prune' = [prune EXCEPT ![c].at = how]

Deleted(c) ==
  prune' = [prune EXCEPT ![c].todo = Tail(@),
                         ![c].at = IF Len(prune[c].todo) = 1 THEN "ok" ELSE "running"]

DeleteChildren(c, t) ==
  /\ t \in ChildTables
  /\ children' = {r \in children : ~(r.table = t /\ r.request \in Eligible(c))}
  /\ Deleted(c)
  /\ UNCHANGED <<requests, responses>>

\* Responses go by their own age, whether or not their request is there.
DeleteResponses(c, t) ==
  /\ t = "responses"
  /\ responses' = {r \in responses : r.at >= Cutoff[c] \/ r.request \in tagged}
  /\ Deleted(c)
  /\ UNCHANGED <<requests, children>>

\* Mutant: requests that still have rows are passed over.
DeleteRequestsQuietly(c, t) ==
  /\ t = "requests"
  /\ requests' = requests \ {q \in Eligible(c) : OfRequests(children, {q}) = {}}
  /\ Deleted(c)
  /\ UNCHANGED <<children, responses>>

\* A row that came in since its table was done makes the whole delete fail.
DeleteRequests(c, t) ==
  /\ t = "requests"
  /\ IF OfRequests(children, Eligible(c)) = {}
     THEN requests' = requests \ Eligible(c) /\ Deleted(c)
     ELSE EndsPrune(c, "refused") /\ UNCHANGED requests
  /\ UNCHANGED <<children, responses>>

\* An error of a statement ends the command: what is deleted stays deleted.
Prune(c) ==
  /\ Running(c)
  /\ \E ok \in BOOLEAN :
       /\ Attempt(ok)
       /\ IF ok
          THEN LET t == Head(prune[c].todo) IN
               \/ DeleteChildren(c, t) \/ DeleteResponses(c, t) \/ DeleteRequests(c, t)
          ELSE EndsPrune(c, "failed") /\ UNCHANGED <<requests, children, responses>>
  /\ offered' = IF Began(c) THEN offered ELSE [offered EXCEPT ![c] = Eligible(c)]
  /\ UNCHANGED <<tagged, intruded, ask, client, killed>>

Kill(c) ==
  /\ AnotherFault /\ Running(c)
  /\ killed' = killed \cup {c}
  /\ UNCHANGED <<requests, children, responses, tagged, prune, offered, intruded, ask, client, faults>>

(***************************************************************************)
(* The handlers of the server.                                             *)
(***************************************************************************)

At(k, step) == client[k].at = step

ClientGo(k, step) == client' = [client EXCEPT ![k].at = step]

OfAsk(k) == {r \in children : r.request = ask[k].request}

\* GetRequest: the tables a rewrite reads from.
Reads == <<"requests", "request_views", "request_judge", "rewrites">>

\* Every handler looks for the request first.
Check(k) ==
  /\ At(k, "checking")
  /\ \E ok \in BOOLEAN :
       /\ Attempt(ok)
       /\ IF ~ok \/ ask[k].request \notin requests THEN ClientGo(k, "refused")
          ELSE IF ask[k].is # "rewrites" THEN ClientGo(k, "inserting")
          ELSE client' = [client EXCEPT ![k].at = "reading", ![k].reads = Reads]
  /\ UNCHANGED responses

\* A request without a row, or without a judge row, is an error; a request
\* without views is not, until one of them is to be rewritten.
Read(k) ==
  /\ At(k, "reading")
  /\ \E ok \in BOOLEAN :
       LET t == Head(client[k].reads)
           rows == {r \in OfAsk(k) : r.table = t}
           there == CASE t = "requests" -> ask[k].request \in requests
                      [] t = "request_judge" -> rows # {}
                      [] OTHER -> TRUE
       IN /\ Attempt(ok)
          /\ IF ok /\ there
             THEN client' = [client EXCEPT
                    ![k].at = IF Len(client[k].reads) = 1 THEN "drafting" ELSE "reading",
                    ![k].reads = Tail(@),
                    ![k].draft = IF t = ask[k].source THEN {r.shows : r \in rows} \ {"none"} ELSE @]
             ELSE ClientGo(k, "refused")
  /\ UNCHANGED responses

\* resolveDraft: the text of a rewrite is in its own row.
Draft(k) ==
  /\ At(k, "drafting")
  /\ \E ok \in BOOLEAN :
       /\ Attempt(ok)
       /\ LET found == client[k].draft # {} /\
                       (ask[k].source = "rewrites" \/ \E r \in responses : r.id \in client[k].draft)
          IN ClientGo(k, IF ok /\ found THEN "calling" ELSE "refused")
  /\ UNCHANGED responses

\* The model answers, or does not.
Rewritten(k) ==
  /\ At(k, "calling")
  /\ \E step \in {"storing", "refused"} : ClientGo(k, step)
  /\ UNCHANGED <<responses, faults>>

\* Mutant: the response comes with the age of its request.
StoreResponseBackdated(k) ==
  /\ At(k, "storing")
  /\ \E ok \in BOOLEAN :
       /\ Attempt(ok)
       /\ responses' = responses \cup IF ok THEN {[id |-> k, request |-> ask[k].request,
                                                   at |-> CreatedAt[ask[k].request]]} ELSE {}
       /\ ClientGo(k, IF ok THEN "inserting" ELSE "refused")

\* The response has no foreign key: it is stored for a request that is gone.
StoreResponse(k) ==
  /\ At(k, "storing")
  /\ \E ok \in BOOLEAN :
       /\ Attempt(ok)
       /\ responses' = responses \cup IF ok THEN {[id |-> k, request |-> ask[k].request, at |-> Now]} ELSE {}
       /\ ClientGo(k, IF ok THEN "inserting" ELSE "refused")

Intruded(q) == [c \in Commands |-> intruded[c] \cup IF Began(c) THEN {q} ELSE {}]

NewChild(k) == [table |-> ask[k].is, request |-> ask[k].request,
                shows |-> IF ask[k].is = "rewrites" THEN k ELSE "none"]

\* InsertRewrite, InsertSentMessage, InsertFeedback.
Insert(k) ==
  /\ At(k, "inserting")
  /\ \E ok \in BOOLEAN :
       /\ Attempt(ok)
       /\ IF ok /\ ask[k].request \in requests
          THEN /\ ClientGo(k, "ok")
               /\ IF ask[k].is = "feedback"
                  THEN tagged' = tagged \cup {ask[k].request} /\ UNCHANGED children
                  ELSE children' = children \cup {NewChild(k)} /\ UNCHANGED tagged
               /\ intruded' = Intruded(ask[k].request)
          ELSE ClientGo(k, "refused") /\ UNCHANGED <<children, tagged, intruded>>
  /\ UNCHANGED responses

Handle(k) ==
  /\ \/ Insert(k)
     \/ /\ Check(k) \/ Read(k) \/ Draft(k) \/ Rewritten(k) \/ StoreResponse(k)
        /\ UNCHANGED <<children, tagged, intruded>>
  /\ UNCHANGED <<requests, prune, offered, ask, killed>>

Answered(k) == client[k].at \in {"ok", "refused"}

AllEnded ==
  /\ \A c \in Commands : ~Running(c)
  /\ \A k \in Clients : Answered(k)
  /\ UNCHANGED vars

Next ==
  \/ \E c \in Commands : Prune(c) \/ Kill(c)
  \/ \E k \in Clients : Handle(k)
  \/ AllEnded

Spec == Init /\ [][Next]_vars

(***************************************************************************)
(* Properties.                                                             *)
(***************************************************************************)

\* The rows and the commands are well formed.
RetentionTypeOK ==
  /\ requests \subseteq Requests /\ tagged \subseteq requests
  /\ \A r \in children : r.table \in ChildTables
  /\ \A s \in responses : s.at \in Nat
  /\ \A c \in Commands : prune[c].at \in {"running", "ok", "failed", "refused"}

\* A view, a verdict or a rewrite that is there can be shown: its request and its
\* response are there, wherever a prune was stopped and whatever came in between.
NothingDangles ==
  \A r \in children : /\ r.request \in requests
                      /\ r.shows # "none" => \E s \in responses : s.id = r.shows

\* From the moment there is feedback on a request nothing of it is deleted any
\* more, not even by a prune that has begun to delete it.
FeedbackKeepsTheRest ==
  [][\A q \in tagged : /\ q \in tagged'
                       /\ OfRequests(children, {q}) \subseteq children'
                       /\ OfRequests(responses, {q}) \subseteq responses']_vars

\* A prune that reports success has deleted every request it was to delete, with
\* all its rows, but for those that got feedback meanwhile.
OkMeansGone ==
  \A c \in Commands : prune[c].at = "ok" =>
    \A q \in offered[c] \ tagged :
      /\ q \notin requests /\ OfRequests(children, {q}) = {}
      /\ \A r \in OfRequests(responses, {q}) : r.at >= Cutoff[c]

\* The deletes are in an order that the foreign keys allow: only a row that came
\* in since it began makes a prune fail without a failing statement.  So it can
\* be run again, also after one that was cut off.
RefusedForARow == \A c \in Commands : prune[c].at = "refused" => intruded[c] # {}
=============================================================================
