----------------------------- MODULE Repository -----------------------------
(***************************************************************************)
(* mongo.Repository: callers that share a lazily connected client work on  *)
(* one collection of a replica set.  Writes go to the primary, reads       *)
(* prefer a secondary, which may lag.  A method is one request; a request  *)
(* is a list of writes that the server applies one document at a time.     *)
(***************************************************************************)
EXTENDS Integers, FiniteSets, Sequences, SequencesExt

CONSTANTS
  Procs,        \* goroutines that call the repository
  MaxId,        \* the documents' ids are 1..MaxId, also their sort order
  CodeOf,       \* the code of each document
  MaxInt,       \* the largest int: 2^63 - 1 in the code
  Sizes,        \* page sizes asked for
  MaxCalls      \* bound: requests that write, and scans page by page

Ids == 1..MaxId

ASSUME RepositoryAssumption ==
  /\ MaxId \in Nat /\ MaxInt \in Nat /\ MaxCalls \in Nat
  /\ CodeOf \in [Ids -> {CodeOf[id] : id \in Ids}]
  /\ Sizes \subseteq Int

VARIABLES
  conn, told,   \* the shared client and what it told each caller (Connection)
  versions,     \* the collection, from the slowest secondary's to the primary's:
                \* its number and, for each document, the writes it shows
  unique,       \* the server has a unique index on the code
  promised,     \* history: CreateIndex said nil to a unique IndexSpec
  todo,         \* the writes of each caller's request not yet applied
  held,         \* the copy of a document each caller has
  scan,         \* a scan with FindPaging
  calls,
  born, handed, \* history: times each id was inserted, and given to a caller
                \* by FindOneAndDelete
  died          \* history: the version of each id's last deletion

link == <<conn, told>>
server == <<versions, unique>>
history == <<promised, born, handed, died>>
vars == <<link, server, todo, held, scan, calls, history>>

Client == INSTANCE Connection WITH state <- conn

None == [id |-> 0]
Now == Last(versions).docs              \* the primary's
n == Last(versions).n + 1               \* the number of the next write
Coded(id) == {other \in Ids : CodeOf[other] = CodeOf[id]}
Filters == {Ids} \cup {Coded(id) : id \in Ids} \cup {{id} : id \in Ids}
Writes == [op : {"insert", "update", "upserting", "delete", "replace"}, filter : SUBSET Ids,
           many : BOOLEAN, upsert : BOOLEAN, give : {"nothing", "before", "after"}]
Copies == [id : Ids, writes : SUBSET Nat, since : Nat] \cup {None}
NoScan == [page |-> 0, size |-> 0, seen |-> {}, steady |-> {}, some |-> {}]

IsDocs(docs) == DOMAIN docs \subseteq Ids /\ docs \in [DOMAIN docs -> SUBSET Nat]

TypeOK ==
  /\ conn \in {"unsettled", "usable", "refused", "closed"}
  /\ told \in [Procs -> {"none", "ok", "error"}]
  /\ versions # <<>>
  /\ \A i \in 1..Len(versions) : versions[i].n \in Nat /\ IsDocs(versions[i].docs)
  /\ unique \in BOOLEAN /\ promised \in BOOLEAN
  /\ todo \in [Procs -> Seq(Writes)] /\ held \in [Procs -> Copies]
  /\ scan \in [page : Nat, size : Nat, seen : SUBSET Ids, steady : SUBSET Ids, some : SUBSET Ids]
  /\ calls \in Nat
  /\ born \in [Ids -> Nat] /\ handed \in [Ids -> Nat] /\ died \in [Ids -> Nat]

Init ==
  /\ Client!Init
  /\ \E S \in {{}, Ids} :
       /\ versions = <<[n |-> 0, docs |-> [id \in S |-> {0}]]>>
       /\ born = [id \in Ids |-> IF id \in S THEN 1 ELSE 0]
  /\ unique = FALSE /\ promised = FALSE
  /\ todo = [p \in Procs |-> <<>>] /\ held = [p \in Procs |-> None]
  /\ scan = NoScan /\ calls = 0
  /\ handed = [id \in Ids |-> 0] /\ died = [id \in Ids |-> 0]

-----------------------------------------------------------------------------
(* What each method asks of the server.                                    *)

Write(op, filter, many, upsert, give) ==
  [op |-> op, filter |-> filter, many |-> many, upsert |-> upsert, give |-> give]

InsertOne(id) == <<Write("insert", {id}, FALSE, FALSE, "nothing")>>
InsertMany(first, second) == InsertOne(first) \o InsertOne(second)
UpdateOne(f) == <<Write("update", f, FALSE, FALSE, "nothing")>>
UpdateMany(f) == <<Write("update", f, TRUE, FALSE, "nothing")>>
UpsertOne(f) == <<Write("update", f, FALSE, TRUE, "nothing")>>
UpsertMany(f) == <<Write("update", f, TRUE, TRUE, "nothing")>>
FindOneAndUpdate(f, rd) == <<Write("update", f, FALSE, FALSE, rd)>>
FindOneAndUpsert(f, rd) == <<Write("update", f, FALSE, TRUE, rd)>>
FindOneAndDelete(f) == <<Write("delete", f, FALSE, FALSE, "before")>>
DeleteOne(f) == <<Write("delete", f, FALSE, FALSE, "nothing")>>
DeleteMany(f) == <<Write("delete", f, TRUE, FALSE, "nothing")>>
ReplaceByID(copy) == <<Write("replace", {copy.id}, FALSE, FALSE, "nothing")>>
ReplaceByCode(copy) == <<Write("replace", Coded(copy.id), FALSE, FALSE, "nothing")>>
BulkWrite(first, second) == first \o second

(* A nil filter is everything; what an upsert inserts has its filter's code.*)
Requests(p) ==
  (UNION {{UpdateOne(f), UpdateMany(f), DeleteOne(f), DeleteMany(f), FindOneAndDelete(f),
           FindOneAndUpdate(f, "before"), FindOneAndUpdate(f, "after")} : f \in Filters})
  \cup (UNION {{UpsertOne(Coded(id)), UpsertMany(Coded(id)), FindOneAndUpsert(Coded(id), "before"),
                FindOneAndUpsert(Coded(id), "after"), InsertOne(id)} : id \in Ids})
  \cup (UNION {{InsertMany(a, b) : b \in Ids} : a \in Ids})
  \cup (UNION {{BulkWrite(InsertOne(a), DeleteOne({b})) : b \in Ids} : a \in Ids})
  \cup (IF held[p] = None THEN {} ELSE {ReplaceByID(held[p]), ReplaceByCode(held[p])})

(* Every method asks the client for its collection first, and returns the  *)
(* client's error.                                                         *)
Collection(p) == todo[p] = <<>> /\ Client!Tell(p)

Call(p) ==
  /\ calls < MaxCalls /\ calls' = calls + 1
  /\ Collection(p)
  /\ IF told'[p] = "ok" THEN \E request \in Requests(p) : todo' = [todo EXCEPT ![p] = request]
                        ELSE UNCHANGED todo
  /\ UNCHANGED <<server, held, scan, history>>

-----------------------------------------------------------------------------
(* The server (external).                                                  *)

Doing(p, op) == conn = "usable" /\ todo[p] # <<>> /\ Head(todo[p]).op = op
Filter(p) == Head(todo[p]).filter
Matching(p) == Filter(p) \cap DOMAIN Now

Commit(docs) ==
  /\ versions' = Append(versions, [n |-> n, docs |-> docs])
  /\ scan' = [scan EXCEPT !.steady = @ \cap DOMAIN docs, !.some = @ \cup DOMAIN docs]

With(id, writes) == [i \in DOMAIN Now \cup {id} |-> IF i = id THEN writes ELSE Now[i]]
Without(id) == [i \in DOMAIN Now \ {id} |-> Now[i]]
Inserted(id) == born' = [born EXCEPT ![id] = @ + 1]

(* A write that is for many documents goes on with those that are left.    *)
NextWrite(p, id) ==
  todo' = [todo EXCEPT ![p] =
    IF Head(todo[p]).many
      THEN <<[Head(todo[p]) EXCEPT !.filter = Filter(p) \ {id}, !.upsert = FALSE]>> \o Tail(todo[p])
      ELSE Tail(todo[p])]

(* An answer may be lost; then the caller gets an error and no document.   *)
Give(p, copy) ==
  IF Head(todo[p]).give = "nothing" THEN UNCHANGED held
  ELSE held' = [held EXCEPT ![p] = copy] \/ UNCHANGED held

InsertFails(id) == id \in DOMAIN Now \/ (unique /\ Coded(id) \cap DOMAIN Now # {})

Insert(p) ==
  /\ Doing(p, "insert")
  /\ \E id \in Filter(p) :
       IF InsertFails(id)
         THEN todo' = [todo EXCEPT ![p] = <<>>] /\ UNCHANGED <<versions, scan, born>>
         ELSE Commit(With(id, {n})) /\ NextWrite(p, id) /\ Inserted(id)
  /\ UNCHANGED <<link, unique, held, calls, promised, handed, died>>

(* Fault variant: options.Before and options.After are swapped.            *)
ReturnedSwapped(p, id) ==
  IF Head(todo[p]).give = "before"
    THEN [id |-> id, writes |-> Now[id] \cup {n}, since |-> n - 1]
    ELSE [id |-> id, writes |-> Now[id], since |-> n]
Returned(p, id) ==
  IF Head(todo[p]).give = "before"
    THEN [id |-> id, writes |-> Now[id], since |-> n - 1]
    ELSE [id |-> id, writes |-> Now[id] \cup {n}, since |-> n]

Update(p) ==
  /\ Doing(p, "update")
  /\ \E id \in Matching(p) :
       /\ Commit(With(id, Now[id] \cup {n})) /\ NextWrite(p, id)
       /\ Give(p, Returned(p, id))
  /\ UNCHANGED <<link, unique, calls, history>>

(* Nothing matches: that is no error.                                      *)
NoMatch(p) == \E op \in {"update", "delete"} :
  /\ Doing(p, op) /\ Matching(p) = {} /\ ~Head(todo[p]).upsert
  /\ todo' = [todo EXCEPT ![p] = Tail(@)]
  /\ UNCHANGED <<link, server, held, scan, calls, history>>

(* An upsert that finds nothing inserts in a second step; if a unique      *)
(* index forbids that by then, the server tries the update again.          *)
UpsertBegins(p) ==
  /\ Doing(p, "update") /\ Matching(p) = {} /\ Head(todo[p]).upsert
  /\ todo' = [todo EXCEPT ![p][1].op = "upserting"]
  /\ UNCHANGED <<link, server, held, scan, calls, history>>

UpsertInserts(p) ==
  /\ Doing(p, "upserting")
  /\ \/ /\ unique /\ Matching(p) # {}
        /\ todo' = [todo EXCEPT ![p][1].op = "update"]
        /\ UNCHANGED <<versions, scan, born, held>>
     \/ \E id \in Filter(p) \ DOMAIN Now :
          /\ ~InsertFails(id)
          /\ Commit(With(id, {n})) /\ Inserted(id)
          /\ todo' = [todo EXCEPT ![p] = Tail(@)]
          /\ IF Head(todo[p]).give = "after" THEN Give(p, [id |-> id, writes |-> {n}, since |-> n])
                                             ELSE UNCHANGED held
  /\ UNCHANGED <<link, unique, calls, promised, handed, died>>

Deleted(p, id) ==
  /\ Commit(Without(id)) /\ NextWrite(p, id)
  /\ died' = [died EXCEPT ![id] = n]
  /\ UNCHANGED <<link, unique, held, calls, promised, born>>

(* Fault variant: FindOneAndDelete as a FindOne followed by a DeleteOne.   *)
DeleteWhatWasFound(p) ==
  /\ Doing(p, "delete")
  /\ \E i \in 1..Len(versions) : \E id \in Filter(p) \cap DOMAIN versions[i].docs :
       /\ Deleted(p, id)
       /\ handed' = [handed EXCEPT ![id] = IF Head(todo[p]).give = "nothing" THEN @ ELSE @ + 1]

Delete(p) ==
  /\ Doing(p, "delete")
  /\ \E id \in Matching(p) :
       /\ Deleted(p, id)
       /\ \/ Head(todo[p]).give # "nothing" /\ handed' = [handed EXCEPT ![id] = @ + 1]
          \/ UNCHANGED handed

(* The caller's copy with its change takes the place of the document; the  *)
(* server refuses it if that document has another id.                      *)
Replace(p) ==
  /\ Doing(p, "replace")
  /\ todo' = [todo EXCEPT ![p] = <<>>]
  /\ \E id \in Matching(p) :
       IF id # held[p].id THEN UNCHANGED <<versions, scan, held>>
       ELSE LET writes == held[p].writes \cup {n} IN
         /\ Commit(With(id, writes))
         /\ held' = [held EXCEPT ![p] = [id |-> id, writes |-> writes, since |-> n]]
  /\ UNCHANGED <<link, unique, calls, history>>

ReplaceNothing(p) ==
  /\ Doing(p, "replace") /\ Matching(p) = {}
  /\ todo' = [todo EXCEPT ![p] = <<>>]
  /\ UNCHANGED <<link, server, held, scan, calls, history>>

(* A request ends early: the network, the caller's context, the client.    *)
Fails(p) ==
  /\ todo[p] # <<>>
  /\ todo' = [todo EXCEPT ![p] = <<>>]
  /\ UNCHANGED <<link, server, held, scan, calls, history>>

Replicate ==
  /\ Len(versions) > 1 /\ versions' = Tail(versions)
  /\ UNCHANGED <<link, unique, todo, held, scan, calls, history>>

-----------------------------------------------------------------------------
(* Indexes and reads, a single exchange with the server each.              *)

Duplicates == \E a, b \in DOMAIN Now : a # b /\ CodeOf[a] = CodeOf[b]

(* Fault variant: the IndexModel is built without SetUnique.               *)
BuildsUniqueForgets(spec) == FALSE
BuildsUnique(spec) == spec.unique

CreateIndex(p) == \E spec \in {[unique |-> TRUE], [unique |-> FALSE]} :
  /\ Collection(p) /\ conn = "usable"
  /\ IF BuildsUnique(spec) /\ Duplicates
       THEN UNCHANGED <<unique, promised>>
       ELSE /\ unique' = (unique \/ BuildsUnique(spec))
            /\ promised' \in {promised, promised \/ spec.unique}
  /\ UNCHANGED <<versions, todo, held, scan, calls, born, handed, died>>

(* Find and FindOne, on a secondary or, if there is none, the primary.     *)
Find(p) == \E i \in 1..Len(versions) : \E id \in DOMAIN versions[i].docs :
  /\ Collection(p) /\ conn = "usable"
  /\ held' = [held EXCEPT ![p] = [id |-> id, writes |-> versions[i].docs[id], since |-> versions[i].n]]
  /\ UNCHANGED <<server, todo, scan, calls, history>>

AtLeast(lowest, value, default) == IF value < lowest THEN default ELSE value
Wrapped(i) == ((i + MaxInt + 1) % (2 * (MaxInt + 1))) - (MaxInt + 1)

(* Fault variant: the page index taken for 0-based.                        *)
SkipZeroBased(page, size) == Wrapped(page * size)
Skip(page, size) == Wrapped((page - 1) * size)

(* Sorted by id; a skip that is not positive is not set.                   *)
PageOf(docs, page, size) ==
  LET first == AtLeast(0, Skip(page, size), 0)
      Before(id) == Cardinality({other \in DOMAIN docs : other < id})
  IN {id \in DOMAIN docs : first <= Before(id) /\ Before(id) < first + size}

BeginScan == \E size \in Sizes, page \in 0..1 :
  /\ scan = NoScan /\ calls < MaxCalls /\ conn = "usable"
  /\ calls' = calls + 1
  /\ scan' = [page |-> AtLeast(1, page, 1), size |-> AtLeast(1, size, 20), seen |-> {},
              steady |-> {id \in Ids : \A i \in 1..Len(versions) : id \in DOMAIN versions[i].docs},
              some |-> {id \in Ids : \E i \in 1..Len(versions) : id \in DOMAIN versions[i].docs}]
  /\ UNCHANGED <<link, server, todo, held, history>>

ScanOver == scan # NoScan /\ scan.page = 0

(* A page that is not full is the last.                                    *)
FindPaging == \E i \in 1..Len(versions) :
  LET found == PageOf(versions[i].docs, scan.page, scan.size) IN
  /\ scan.page > 0 /\ conn = "usable"
  /\ scan' = [scan EXCEPT !.seen = @ \cup found,
                          !.page = IF Cardinality(found) < scan.size THEN 0 ELSE @ + 1]
  /\ UNCHANGED <<link, server, todo, held, calls, history>>

EndScan ==
  /\ ScanOver /\ scan' = NoScan
  /\ UNCHANGED <<link, server, todo, held, calls, history>>

Settle == Client!Settle /\ UNCHANGED <<server, todo, held, scan, calls, history>>
Close == Client!Close /\ UNCHANGED <<server, todo, held, scan, calls, history>>

Apply(p) ==
  \/ Insert(p) \/ Update(p) \/ NoMatch(p) \/ UpsertBegins(p) \/ UpsertInserts(p)
  \/ Delete(p) \/ Replace(p) \/ ReplaceNothing(p)

Next ==
  \/ Settle \/ Close \/ Replicate
  \/ \E p \in Procs : Call(p) \/ Apply(p) \/ Fails(p) \/ CreateIndex(p) \/ Find(p)
  \/ BeginScan \/ FindPaging \/ EndScan

Spec == Init /\ [][Next]_vars

-----------------------------------------------------------------------------
(* Properties.                                                             *)

(* FindOneAndDelete "atomically removes a document and returns it": used   *)
(* to take work from the collection, it gives a document to one caller,    *)
(* however the callers race and whatever the secondaries still show.       *)
HandedOutOnce == \A id \in Ids : handed[id] <= born[id]

(* Once CreateIndex returned nil for a unique index on the code, no two    *)
(* documents share one, also with upserts that raced it under way.         *)
OneDocPerCode == promised => ~Duplicates

(* Replace writes a whole copy back.  It loses writes of others only if    *)
(* the document was written after the version the copy shows, and it       *)
(* returns nil without saving anything only if it was deleted after that.  *)
(* The version is the newest for a copy from FindOneAnd*, a past one for a *)
(* copy from Find.  Every Replace here writes back a copy that was read.   *)
LossNeedsLaterWrite ==
  [][/\ \A id \in DOMAIN Now \cap DOMAIN Now' : ~(Now[id] \subseteq Now'[id]) =>
          \E p \in Procs : held[p].id = id /\ \E w \in Now[id] : w > held[p].since
     /\ \A p \in Procs : ReplaceNothing(p) => died[held[p].id] > held[p].since]_vars

(* A scan to the last page has seen each document that was in every        *)
(* version it may have read, unless one sorted before it came or went.     *)
(* The sort key is unique and never changes; with another sort, or none,   *)
(* which FindPaging takes as well, pages promise nothing.                  *)
MissNeedsShift ==
  ScanOver => \A id \in scan.steady \ scan.seen : \E other \in scan.some \ scan.steady : other < id
=============================================================================
