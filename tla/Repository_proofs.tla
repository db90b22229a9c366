------------------------- MODULE Repository_proofs -------------------------
(***************************************************************************)
(* What holds of mongo.Repository for any callers, documents, codes, pages *)
(* and replication lag.                                                    *)
(***************************************************************************)
EXTENDS Repository, FiniteSetTheorems, WellFoundedInduction, TLAPS

Docs == UNION {[S -> SUBSET Nat] : S \in SUBSET Ids}
Versions == [n : Nat, docs : Docs]

(* Everything but the scan, which no write depends on.                     *)
Typed ==
  /\ versions \in Seq(Versions) /\ versions # <<>>
  /\ unique \in BOOLEAN /\ promised \in BOOLEAN
  /\ todo \in [Procs -> Seq(Writes)] /\ held \in [Procs -> Copies]
  /\ born \in [Ids -> Nat] /\ handed \in [Ids -> Nat] /\ died \in [Ids -> Nat]

LEMMA IdsAreInts == Ids \subseteq Int /\ 0 \notin Ids
  BY RepositoryAssumption DEF Ids

LEMMA NowTyped ==
  ASSUME Typed
  PROVE  /\ Last(versions) \in Versions /\ Len(versions) \in Nat \ {0}
         /\ Now \in Docs /\ DOMAIN Now \subseteq Ids /\ Now \in [DOMAIN Now -> SUBSET Nat]
         /\ n \in Nat
<1>1. Len(versions) \in Nat /\ Len(versions) # 0
  BY DEF Typed
<1>2. Last(versions) \in Versions
  BY <1>1 DEF Typed, Last
<1>3. Now \in Docs
  BY <1>2 DEF Now, Versions
<1> QED BY <1>1, <1>2, <1>3 DEF Docs, n, Versions

(* Committing a write makes it the newest version.                         *)
LEMMA CommitNow ==
  ASSUME Typed, NEW docs \in Docs, Commit(docs)
  PROVE  /\ versions' \in Seq(Versions) /\ versions' # <<>>
         /\ Now' = docs /\ Last(versions)'.n = n
         /\ Len(versions') = Len(versions) + 1
         /\ \A i \in 1..Len(versions) : versions'[i] = versions[i]
         /\ versions'[Len(versions) + 1] = [n |-> n, docs |-> docs]
<1> DEFINE v == [n |-> n, docs |-> docs]
<1>1. v \in Versions
  BY NowTyped DEF Versions
<1>2. versions \in Seq(Versions) /\ versions' = Append(versions, v)
  BY DEF Typed, Commit
<1> HIDE DEF v
<1>3. /\ versions' \in Seq(Versions) /\ versions' # <<>> /\ Len(versions') = Len(versions) + 1
      /\ \A i \in 1..Len(versions) : versions'[i] = versions[i]
      /\ versions'[Len(versions) + 1] = v
  BY <1>1, <1>2
<1>4. Last(versions)' = v
  BY <1>3 DEF Last
<1> QED BY <1>3, <1>4 DEF v, Now

LEMMA ReplicateNow ==
  ASSUME Typed, Replicate
  PROVE  /\ versions' \in Seq(Versions) /\ versions' # <<>>
         /\ Last(versions)' = Last(versions) /\ Now' = Now
         /\ Len(versions') = Len(versions) - 1
         /\ \A i \in 1..Len(versions') : versions'[i] = versions[i + 1]
<1>1. versions \in Seq(Versions) /\ Len(versions) > 1 /\ versions' = Tail(versions)
  BY DEF Typed, Replicate
<1>2. /\ versions' \in Seq(Versions) /\ Len(versions') = Len(versions) - 1
      /\ \A i \in 1..Len(versions') : versions'[i] = versions[i + 1]
  BY <1>1
<1>3. Len(versions) \in Nat /\ Len(versions') \in Nat /\ Len(versions') >= 1 /\ versions' # <<>>
  <2>1. Len(versions) \in Nat /\ Len(versions) > 1
    BY <1>1
  <2>2. Len(versions') = Len(versions) - 1
    BY <1>2
  <2> QED BY <2>1, <2>2
<1>4. Last(versions)' = versions'[Len(versions')] /\ Last(versions) = versions[Len(versions)]
  BY DEF Last
<1>5. versions'[Len(versions')] = versions[Len(versions') + 1] /\ Len(versions') + 1 = Len(versions)
  BY <1>2, <1>3
<1>6. Last(versions)' = Last(versions)
  BY <1>4, <1>5
<1> QED BY <1>2, <1>3, <1>6 DEF Now

LEMMA WithTyped ==
  ASSUME Typed, NEW id \in Ids, NEW writes \in SUBSET Nat
  PROVE  /\ With(id, writes) \in Docs /\ DOMAIN With(id, writes) = DOMAIN Now \cup {id}
         /\ With(id, writes)[id] = writes
         /\ \A i \in DOMAIN Now \ {id} : With(id, writes)[i] = Now[i]
<1>1. With(id, writes) \in [DOMAIN Now \cup {id} -> SUBSET Nat]
  BY NowTyped DEF With
<1> QED BY <1>1, NowTyped DEF With, Docs

LEMMA WithoutTyped ==
  ASSUME Typed, NEW id \in Ids
  PROVE  /\ Without(id) \in Docs /\ DOMAIN Without(id) = DOMAIN Now \ {id}
         /\ \A i \in DOMAIN Now \ {id} : Without(id)[i] = Now[i]
<1>1. Without(id) \in [DOMAIN Now \ {id} -> SUBSET Nat]
  BY NowTyped DEF Without
<1> QED BY <1>1, NowTyped DEF Without, Docs

-----------------------------------------------------------------------------
(* A request is a list of writes; the only ones with a replace are the two *)
(* ReplaceBy methods, on a copy the caller has.                            *)
NoReplace(list) == \A i \in 1..Len(list) : list[i].op # "replace"
Replaces(list, copy) ==
  /\ Len(list) = 1 /\ list[1].op = "replace"
  /\ copy # None /\ copy.id \in list[1].filter
Sound(list, copy) == list \in Seq(Writes) /\ (NoReplace(list) \/ Replaces(list, copy))

LEMMA WriteFields ==
  \A op \in {"insert", "update", "delete", "replace"}, filter \in SUBSET Ids, many \in BOOLEAN,
     upsert \in BOOLEAN, give \in {"nothing", "before", "after"} :
       /\ Write(op, filter, many, upsert, give) \in Writes
       /\ Write(op, filter, many, upsert, give).op = op
       /\ Write(op, filter, many, upsert, give).filter = filter
  BY DEF Write, Writes

LEMMA OneWrite ==
  ASSUME NEW w \in Writes
  PROVE  /\ <<w>> \in Seq(Writes) /\ Len(<<w>>) = 1 /\ <<w>>[1] = w
         /\ w.op # "replace" => NoReplace(<<w>>)
  BY DEF NoReplace

LEMMA TwoWrites ==
  ASSUME NEW x \in Writes, NEW y \in Writes, x.op # "replace", y.op # "replace"
  PROVE  <<x>> \o <<y>> \in Seq(Writes) /\ NoReplace(<<x>> \o <<y>>)
<1>1. <<x>> \in Seq(Writes) /\ <<y>> \in Seq(Writes) /\ Len(<<x>>) = 1 /\ Len(<<y>>) = 1 /\ <<x>>[1] = x /\ <<y>>[1] = y
  OBVIOUS
<1>2. <<x>> \o <<y>> \in Seq(Writes) /\ Len(<<x>> \o <<y>>) = 2
  BY <1>1
<1>3. (<<x>> \o <<y>>)[1] = x /\ (<<x>> \o <<y>>)[2] = y
  BY <1>1
<1>4. \A i \in 1..2 : (<<x>> \o <<y>>)[i].op # "replace"
  BY <1>3
<1> QED BY <1>2, <1>4 DEF NoReplace

LEMMA InsertFields ==
  \A id \in Ids : LET w == Write("insert", {id}, FALSE, FALSE, "nothing") IN w \in Writes /\ w.op = "insert"
  BY DEF Write, Writes

LEMMA DeleteFields ==
  \A id \in Ids : LET w == Write("delete", {id}, FALSE, FALSE, "nothing") IN w \in Writes /\ w.op = "delete"
  BY DEF Write, Writes

LEMMA CodedIds == \A id \in Ids : Coded(id) \in SUBSET Ids /\ id \in Coded(id)
  BY DEF Coded

LEMMA FiltersAreIds == Filters \subseteq SUBSET Ids
  BY CodedIds DEF Filters

LEMMA RequestsSound ==
  ASSUME Typed, NEW p \in Procs, NEW request \in Requests(p)
  PROVE  Sound(request, held[p])
<1>1. ASSUME NEW f \in SUBSET Ids, NEW rd \in {"before", "after"},
             request \in {UpdateOne(f), UpdateMany(f), DeleteOne(f), DeleteMany(f), FindOneAndDelete(f),
                         UpsertOne(f), UpsertMany(f), FindOneAndUpdate(f, rd), FindOneAndUpsert(f, rd)}
      PROVE  request \in Seq(Writes) /\ NoReplace(request)
  <2>1. PICK op \in {"update", "delete"}, many \in BOOLEAN, upsert \in BOOLEAN, give \in {"nothing", "before", "after"} :
          request = <<Write(op, f, many, upsert, give)>>
    BY <1>1 DEF UpdateOne, UpdateMany, DeleteOne, DeleteMany, FindOneAndDelete, UpsertOne, UpsertMany,
                FindOneAndUpdate, FindOneAndUpsert
  <2>2. Write(op, f, many, upsert, give) \in Writes /\ Write(op, f, many, upsert, give).op # "replace"
    BY WriteFields
  <2> QED BY <2>1, <2>2, OneWrite
<1>2. ASSUME NEW id \in Ids PROVE InsertOne(id) \in Seq(Writes) /\ NoReplace(InsertOne(id))
  BY OneWrite, InsertFields DEF InsertOne
<1>3. ASSUME NEW a \in Ids, NEW b \in Ids
      PROVE InsertMany(a, b) \in Seq(Writes) /\ NoReplace(InsertMany(a, b))
  BY TwoWrites, InsertFields DEF InsertMany, InsertOne
<1>4. ASSUME NEW a \in Ids, NEW b \in Ids
      PROVE BulkWrite(InsertOne(a), DeleteOne({b})) \in Seq(Writes) /\ NoReplace(BulkWrite(InsertOne(a), DeleteOne({b})))
  BY TwoWrites, InsertFields, DeleteFields DEF BulkWrite, InsertOne, DeleteOne
<1>5. ASSUME held[p] # None, request \in {ReplaceByID(held[p]), ReplaceByCode(held[p])}
      PROVE  request \in Seq(Writes) /\ Replaces(request, held[p])
  <2>1. held[p].id \in Ids
    BY <1>5 DEF Typed, Copies
  <2>2. PICK f \in SUBSET Ids : held[p].id \in f /\ request = <<Write("replace", f, FALSE, FALSE, "nothing")>>
    BY <1>5, <2>1, CodedIds DEF ReplaceByID, ReplaceByCode
  <2> DEFINE w == Write("replace", f, FALSE, FALSE, "nothing")
  <2>3. w \in Writes /\ w.op = "replace" /\ w.filter = f
    BY WriteFields
  <2> HIDE DEF w
  <2>4. <<w>> \in Seq(Writes) /\ Len(<<w>>) = 1 /\ <<w>>[1] = w
    BY <2>3, OneWrite
  <2>5. request = <<w>>
    BY <2>2 DEF w
  <2> QED BY <1>5, <2>2, <2>3, <2>4, <2>5 DEF Replaces
<1>6. \/ \E f \in SUBSET Ids, rd \in {"before", "after"} :
           request \in {UpdateOne(f), UpdateMany(f), DeleteOne(f), DeleteMany(f), FindOneAndDelete(f),
                        UpsertOne(f), UpsertMany(f), FindOneAndUpdate(f, rd), FindOneAndUpsert(f, rd)}
      \/ \E id \in Ids : request = InsertOne(id)
      \/ \E a \in Ids, b \in Ids : request = InsertMany(a, b)
      \/ \E a \in Ids, b \in Ids : request = BulkWrite(InsertOne(a), DeleteOne({b}))
      \/ held[p] # None /\ request \in {ReplaceByID(held[p]), ReplaceByCode(held[p])}
  <2> DEFINE plain == UNION {{UpdateOne(f), UpdateMany(f), DeleteOne(f), DeleteMany(f), FindOneAndDelete(f),
                              FindOneAndUpdate(f, "before"), FindOneAndUpdate(f, "after")} : f \in Filters}
             ofCode == UNION {{UpsertOne(Coded(id)), UpsertMany(Coded(id)), FindOneAndUpsert(Coded(id), "before"),
                               FindOneAndUpsert(Coded(id), "after"), InsertOne(id)} : id \in Ids}
             pairs == UNION {{InsertMany(a, b) : b \in Ids} : a \in Ids}
             bulk == UNION {{BulkWrite(InsertOne(a), DeleteOne({b})) : b \in Ids} : a \in Ids}
             back == IF held[p] = None THEN {} ELSE {ReplaceByID(held[p]), ReplaceByCode(held[p])}
  <2>1. request \in plain \cup ofCode \cup pairs \cup bulk \cup back
    BY DEF Requests
  <2>2. CASE request \in plain
    <3>1. \E f \in Filters : request \in {UpdateOne(f), UpdateMany(f), DeleteOne(f), DeleteMany(f), FindOneAndDelete(f),
                                         FindOneAndUpdate(f, "before"), FindOneAndUpdate(f, "after")}
      BY <2>2
    <3> HIDE DEF plain, ofCode, pairs, bulk, back
    <3> QED BY <3>1, FiltersAreIds
  <2>3. CASE request \in ofCode
    <3>1. PICK id \in Ids : request \in {UpsertOne(Coded(id)), UpsertMany(Coded(id)), FindOneAndUpsert(Coded(id), "before"),
                                         FindOneAndUpsert(Coded(id), "after"), InsertOne(id)}
      BY <2>3
    <3>2. Coded(id) \in SUBSET Ids
      BY CodedIds
    <3> HIDE DEF plain, ofCode, pairs, bulk, back
    <3> QED BY <3>1, <3>2
  <2>4. CASE request \in pairs
    BY <2>4
  <2>5. CASE request \in bulk
    BY <2>5
  <2>6. CASE request \in back
    BY <2>6
  <2> HIDE DEF plain, ofCode, pairs, bulk, back
  <2> QED BY <2>1, <2>2, <2>3, <2>4, <2>5, <2>6
<1> QED BY <1>1, <1>2, <1>3, <1>4, <1>5, <1>6 DEF Sound

-----------------------------------------------------------------------------
(* Steps through a request keep it sound.                                  *)
Requested == \A p \in Procs : Sound(todo[p], held[p])

GoesOn(p) ==
  /\ todo' \in [Procs -> Seq(Writes)] /\ NoReplace(todo'[p])
  /\ \A q \in Procs \ {p} : todo'[q] = todo[q]
OnlyHolds(p) == held' \in [Procs -> Copies] /\ \A q \in Procs \ {p} : held'[q] = held[q]

LEMMA SoundAfter ==
  ASSUME Typed, Requested, NEW p \in Procs, GoesOn(p), OnlyHolds(p)
  PROVE  Requested'
  BY DEF Requested, GoesOn, OnlyHolds, Sound, Typed

LEMMA EmptyGoesOn ==
  ASSUME Typed, NEW p \in Procs, todo' = [todo EXCEPT ![p] = <<>>]
  PROVE  GoesOn(p)
<1>1. <<>> \in Seq(Writes) /\ Len(<<>>) = 0
  OBVIOUS
<1>2. NoReplace(<<>>)
  BY <1>1 DEF NoReplace
<1> QED BY <1>1, <1>2 DEF Typed, GoesOn

LEMMA ListGoesOn ==
  ASSUME Typed, NEW p \in Procs, NEW list \in Seq(Writes), NoReplace(list), todo' = [todo EXCEPT ![p] = list]
  PROVE  GoesOn(p)
  BY DEF Typed, GoesOn

LEMMA TailSound ==
  ASSUME Typed, Requested, NEW p \in Procs, todo[p] # <<>>, Head(todo[p]).op # "replace"
  PROVE  /\ Head(todo[p]) \in Writes /\ NoReplace(todo[p])
         /\ Tail(todo[p]) \in Seq(Writes) /\ NoReplace(Tail(todo[p]))
<1>1. todo[p] \in Seq(Writes) /\ Len(todo[p]) >= 1 /\ Len(todo[p]) \in Nat /\ Head(todo[p]) = todo[p][1]
  BY DEF Typed
<1>2. Head(todo[p]) \in Writes /\ Tail(todo[p]) \in Seq(Writes) /\ Len(Tail(todo[p])) = Len(todo[p]) - 1
      /\ \A i \in 1..Len(Tail(todo[p])) : Tail(todo[p])[i] = todo[p][i + 1]
  BY <1>1
<1>3. NoReplace(todo[p])
  BY <1>1 DEF Requested, Sound, Replaces
<1>4. \A i \in 1..Len(Tail(todo[p])) : i + 1 \in 1..Len(todo[p])
  BY <1>1, <1>2
<1>5. NoReplace(Tail(todo[p]))
  BY <1>2, <1>3, <1>4 DEF NoReplace
<1> QED BY <1>2, <1>3, <1>5

(* What stands in the place of the first write.                            *)
LEMMA InsteadSound ==
  ASSUME NEW w \in Writes, w.op # "replace", NEW rest \in Seq(Writes), NoReplace(rest)
  PROVE  <<w>> \o rest \in Seq(Writes) /\ NoReplace(<<w>> \o rest)
<1>1. <<w>> \in Seq(Writes) /\ Len(<<w>>) = 1 /\ <<w>>[1] = w /\ Len(rest) \in Nat
  OBVIOUS
<1>2. <<w>> \o rest \in Seq(Writes) /\ Len(<<w>> \o rest) = Len(rest) + 1
  BY <1>1
<1>3. (<<w>> \o rest)[1] = w /\ \A i \in 2..(Len(rest) + 1) : (<<w>> \o rest)[i] = rest[i - 1] /\ i - 1 \in 1..Len(rest)
  BY <1>1
<1>4. ASSUME NEW i \in 1..(Len(rest) + 1) PROVE (<<w>> \o rest)[i].op # "replace"
  <2>1. i = 1 \/ i \in 2..(Len(rest) + 1)
    BY <1>1
  <2> QED BY <2>1, <1>3 DEF NoReplace
<1> QED BY <1>2, <1>4 DEF NoReplace

LEMMA NextWriteGoesOn ==
  ASSUME Typed, Requested, NEW p \in Procs, NEW id \in Ids, todo[p] # <<>>, Head(todo[p]).op # "replace", NextWrite(p, id)
  PROVE  GoesOn(p)
<1> DEFINE w == [Head(todo[p]) EXCEPT !.filter = Filter(p) \ {id}, !.upsert = FALSE]
<1>1. w \in Writes /\ w.op # "replace"
  BY TailSound DEF Writes, Filter
<1>2. <<w>> \o Tail(todo[p]) \in Seq(Writes) /\ NoReplace(<<w>> \o Tail(todo[p]))
  <2> HIDE DEF w
  <2> QED BY <1>1, TailSound, InsteadSound
<1>3. \/ todo' = [todo EXCEPT ![p] = <<w>> \o Tail(todo[p])]
      \/ todo' = [todo EXCEPT ![p] = Tail(todo[p])]
  BY DEF NextWrite
<1> HIDE DEF w
<1> QED BY <1>2, <1>3, TailSound, ListGoesOn

LEMMA TurnGoesOn ==
  ASSUME Typed, Requested, NEW p \in Procs, NEW op \in {"update", "upserting"},
         todo[p] # <<>>, Head(todo[p]).op # "replace", todo' = [todo EXCEPT ![p][1].op = op]
  PROVE  GoesOn(p)
<1> DEFINE list == [todo[p] EXCEPT ![1].op = op]
<1>1. todo' = [todo EXCEPT ![p] = list]
  BY DEF Typed
<1>2. todo[p] \in Seq(Writes) /\ Len(todo[p]) \in Nat /\ Len(todo[p]) >= 1 /\ todo[p][1] \in Writes /\ NoReplace(todo[p])
  BY TailSound DEF Typed
<1> DEFINE w == [todo[p][1] EXCEPT !.op = op]
<1>3. w \in Writes /\ w.op # "replace"
  BY <1>2 DEF Writes
<1> HIDE DEF w
<1>4. list = [todo[p] EXCEPT ![1] = w]
  BY <1>2 DEF w
<1> HIDE DEF list
<1>5. list \in Seq(Writes) /\ Len(list) = Len(todo[p]) /\ \A i \in 1..Len(list) : list[i] = IF i = 1 THEN w ELSE todo[p][i]
  BY <1>2, <1>3, <1>4
<1>6. NoReplace(list)
  BY <1>2, <1>3, <1>5 DEF NoReplace
<1> QED BY <1>1, <1>5, <1>6, ListGoesOn

-----------------------------------------------------------------------------
(* What a write of one document leaves of the others, and of copies: a     *)
(* copy that is no longer what the collection holds is older than a write  *)
(* or the deletion of its document.                                        *)
Wrote(id) ==
  /\ versions' \in Seq(Versions) /\ versions' # <<>>
  /\ Len(versions') = Len(versions) + 1 /\ \A i \in 1..Len(versions) : versions'[i] = versions[i]
  /\ versions'[Len(versions) + 1] = [n |-> n, docs |-> Now'] /\ Last(versions)'.n = n
  /\ \A i \in Ids \ {id} : /\ i \in DOMAIN Now' <=> i \in DOMAIN Now
                           /\ i \in DOMAIN Now => Now'[i] = Now[i]
                           /\ died'[i] = died[i]
  /\ IF id \in DOMAIN Now' THEN n \in Now'[id] ELSE died'[id] = n

Fresh(docs, deleted, id, writes, since) ==
  IF id \in DOMAIN docs THEN docs[id] = writes \/ \E w \in docs[id] : w > since
                        ELSE deleted[id] > since

FreshCopy(p) ==
  held[p] # None => held[p].since <= Last(versions).n /\ Fresh(Now, died, held[p].id, held[p].writes, held[p].since)
CopiesFresh == \A p \in Procs : FreshCopy(p)

VersionsFresh == \A i \in 1..Len(versions) :
  /\ versions[i].n <= Last(versions).n
  /\ \A id \in DOMAIN versions[i].docs : Fresh(Now, died, id, versions[i].docs[id], versions[i].n)

LEMMA CommitWrote ==
  ASSUME Typed, NEW id \in Ids, NEW writes \in SUBSET Nat, n \in writes,
         Commit(With(id, writes)), UNCHANGED died
  PROVE  Wrote(id) /\ DOMAIN Now' = DOMAIN Now \cup {id} /\ Now'[id] = writes
<1>1. /\ With(id, writes) \in Docs /\ DOMAIN With(id, writes) = DOMAIN Now \cup {id} /\ With(id, writes)[id] = writes
      /\ \A i \in DOMAIN Now \ {id} : With(id, writes)[i] = Now[i]
  BY WithTyped
<1>2. Now' = With(id, writes)
  BY <1>1, CommitNow
<1>3. /\ versions' \in Seq(Versions) /\ versions' # <<>> /\ Last(versions)'.n = n
      /\ Len(versions') = Len(versions) + 1 /\ \A i \in 1..Len(versions) : versions'[i] = versions[i]
      /\ versions'[Len(versions) + 1] = [n |-> n, docs |-> Now']
  BY <1>1, <1>2, CommitNow
<1> QED BY <1>1, <1>2, <1>3 DEF Wrote

LEMMA RemoveWrote ==
  ASSUME Typed, NEW id \in Ids, Commit(Without(id)), died' = [died EXCEPT ![id] = n]
  PROVE  Wrote(id) /\ DOMAIN Now' = DOMAIN Now \ {id}
<1>1. /\ Without(id) \in Docs /\ DOMAIN Without(id) = DOMAIN Now \ {id}
      /\ \A i \in DOMAIN Now \ {id} : Without(id)[i] = Now[i]
  BY WithoutTyped
<1>2. Now' = Without(id)
  BY <1>1, CommitNow
<1>3. /\ versions' \in Seq(Versions) /\ versions' # <<>> /\ Last(versions)'.n = n
      /\ Len(versions') = Len(versions) + 1 /\ \A i \in 1..Len(versions) : versions'[i] = versions[i]
      /\ versions'[Len(versions) + 1] = [n |-> n, docs |-> Now']
  BY <1>1, <1>2, CommitNow
<1>4. died' \in [Ids -> Nat] /\ died'[id] = n /\ \A i \in Ids \ {id} : died'[i] = died[i]
  BY NowTyped DEF Typed
<1> QED BY <1>1, <1>2, <1>3, <1>4 DEF Wrote

LEMMA FreshStays ==
  ASSUME Typed, NEW id \in Ids, Wrote(id),
         NEW i \in Ids, NEW writes, NEW since \in Nat, since <= Last(versions).n, Fresh(Now, died, i, writes, since)
  PROVE  Fresh(Now', died', i, writes, since) /\ since <= Last(versions)'.n
<1>1. n \in Nat /\ n > since /\ Last(versions)'.n = n
  BY NowTyped DEF n, Versions, Wrote
<1>2. since <= Last(versions)'.n
  BY <1>1
<1>3. CASE i = id
  BY <1>1, <1>2, <1>3 DEF Fresh, Wrote
<1>4. CASE i # id
  <2>1. (i \in DOMAIN Now' <=> i \in DOMAIN Now) /\ (i \in DOMAIN Now => Now'[i] = Now[i]) /\ died'[i] = died[i]
    BY <1>4 DEF Wrote
  <2> QED BY <1>2, <2>1 DEF Fresh
<1> QED BY <1>3, <1>4

LEMMA VersionsStayFresh ==
  ASSUME Typed, VersionsFresh, NEW id \in Ids, Wrote(id)
  PROVE  VersionsFresh'
<1> DEFINE Good(i) == /\ versions'[i].n <= Last(versions)'.n
                      /\ \A j \in DOMAIN versions'[i].docs : Fresh(Now', died', j, versions'[i].docs[j], versions'[i].n)
<1>1. Len(versions) \in Nat /\ n \in Nat
  BY NowTyped
<1>2. ASSUME NEW i \in 1..Len(versions) PROVE Good(i)
  <2>1. versions'[i] = versions[i] /\ versions[i] \in Versions /\ versions[i].n <= Last(versions).n
    BY <1>2 DEF Wrote, VersionsFresh, Typed
  <2>2. versions[i].n \in Nat /\ DOMAIN versions[i].docs \subseteq Ids
    BY <2>1 DEF Versions, Docs
  <2>3. versions[i].n <= Last(versions)'.n
    BY <2>1, <2>2, NowTyped DEF Wrote, Versions, n
  <2>4. ASSUME NEW j \in DOMAIN versions[i].docs
        PROVE  Fresh(Now', died', j, versions[i].docs[j], versions[i].n)
    <3>1. j \in Ids /\ Fresh(Now, died, j, versions[i].docs[j], versions[i].n)
      BY <1>2, <2>2 DEF VersionsFresh
    <3> QED BY <2>1, <2>2, <3>1, FreshStays
  <2> QED BY <2>1, <2>3, <2>4
<1>3. ASSUME NEW i, i = Len(versions) + 1 PROVE Good(i)
  <2>1. versions'[i].n = n /\ versions'[i].docs = Now' /\ Last(versions)'.n = n
    BY <1>3 DEF Wrote
  <2> QED BY <1>1, <2>1 DEF Fresh
<1>4. Len(versions') = Len(versions) + 1
  BY DEF Wrote
<1>5. \A i \in 1..Len(versions') : i \in 1..Len(versions) \/ i = Len(versions) + 1
  BY <1>1, <1>4
<1>6. \A i \in 1..Len(versions') : Good(i)
  <2> HIDE DEF Good
  <2> QED BY <1>2, <1>3, <1>5
<1> QED BY <1>6 DEF VersionsFresh

-----------------------------------------------------------------------------
(* The inductive invariant.                                                *)
Accounts == \A id \in Ids : handed[id] + (IF id \in DOMAIN Now THEN 1 ELSE 0) <= born[id]
Indexed == (promised => unique) /\ (unique => ~Duplicates)

IInv == Typed /\ Requested /\ Accounts /\ Indexed /\ CopiesFresh /\ VersionsFresh

LEMMA InitInv == Init => IInv
<1> SUFFICES ASSUME Init PROVE IInv
  OBVIOUS
<1>1. PICK S \in {{}, Ids} : /\ versions = <<[n |-> 0, docs |-> [id \in S |-> {0}]]>>
                            /\ born = [id \in Ids |-> IF id \in S THEN 1 ELSE 0]
  BY DEF Init
<1> DEFINE v == [n |-> 0, docs |-> [id \in S |-> {0}]]
<1>2. v \in Versions /\ v.n = 0 /\ v.docs = [id \in S |-> {0}]
  BY DEF Versions, Docs
<1>3. versions = <<v>>
  BY <1>1
<1> HIDE DEF v
<1>4. versions \in Seq(Versions) /\ versions # <<>> /\ Len(versions) = 1 /\ versions[1] = v
  BY <1>2, <1>3
<1>5. Last(versions) = v /\ Now = [id \in S |-> {0}]
  BY <1>2, <1>4 DEF Last, Now
<1>6. Typed
  <2>1. todo \in [Procs -> Seq(Writes)] /\ held \in [Procs -> Copies]
    <3>1. <<>> \in Seq(Writes)
      OBVIOUS
    <3> QED BY <3>1 DEF Init, Copies
  <2> QED BY <1>1, <1>4, <2>1 DEF Init, Typed
<1>7. Requested
  <2>1. <<>> \in Seq(Writes) /\ Len(<<>>) = 0
    OBVIOUS
  <2>2. Sound(<<>>, None)
    BY <2>1 DEF Sound, NoReplace
  <2> QED BY <2>2 DEF Init, Requested
<1>8. Accounts /\ Indexed
  BY <1>1, <1>5 DEF Init, Accounts, Indexed
<1>9. CopiesFresh
  BY DEF Init, CopiesFresh, FreshCopy
<1>10. VersionsFresh
  <2>1. \A i \in 1..Len(versions) : versions[i] = v
    BY <1>4
  <2> QED BY <1>2, <1>5, <2>1 DEF VersionsFresh, Fresh
<1> QED BY <1>6, <1>7, <1>8, <1>9, <1>10 DEF IInv

(* A step that writes nothing and leaves the copies.                       *)
LEMMA QuietStep ==
  ASSUME IInv, UNCHANGED <<versions, unique, promised, held, born, handed, died>>,
         todo' \in [Procs -> Seq(Writes)], Requested'
  PROVE  IInv'
<1>1. Now' = Now /\ Last(versions)' = Last(versions) /\ (Duplicates' <=> Duplicates)
  BY DEF Now, Last, Duplicates
<1>2. Typed' /\ Accounts' /\ Indexed'
  BY <1>1 DEF IInv, Typed, Accounts, Indexed
<1>3. CopiesFresh' /\ VersionsFresh'
  BY <1>1 DEF IInv, CopiesFresh, FreshCopy, VersionsFresh
<1> QED BY <1>2, <1>3 DEF IInv

LEMMA QuietGoesOn ==
  ASSUME IInv, UNCHANGED <<versions, unique, promised, held, born, handed, died>>, NEW p \in Procs, GoesOn(p)
  PROVE  IInv'
<1>1. OnlyHolds(p)
  BY DEF IInv, Typed, OnlyHolds
<1> QED BY <1>1, SoundAfter, QuietStep DEF IInv, GoesOn

LEMMA QuietRests ==
  ASSUME IInv, UNCHANGED <<versions, unique, promised, held, born, handed, died, todo>>
  PROVE  IInv'
  BY QuietStep DEF IInv, Typed, Requested

(* A step that writes one document, seen by everything but what it is for. *)
LEMMA WriteStep ==
  ASSUME IInv, NEW id \in Ids, Wrote(id), NEW p \in Procs, GoesOn(p), OnlyHolds(p), UNCHANGED <<unique, promised>>,
         born' \in [Ids -> Nat], handed' \in [Ids -> Nat], died' \in [Ids -> Nat],
         Accounts', Indexed', held'[p] = held[p] \/ FreshCopy(p)'
  PROVE  IInv'
<1>1. Typed'
  BY DEF IInv, Typed, Wrote, GoesOn, OnlyHolds
<1>2. Requested'
  BY SoundAfter DEF IInv
<1>3. VersionsFresh'
  BY VersionsStayFresh DEF IInv
<1>4. ASSUME NEW q \in Procs, held'[q] = held[q] PROVE FreshCopy(q)'
  <2> SUFFICES ASSUME held[q] # None
               PROVE  /\ held[q].since <= Last(versions)'.n
                      /\ Fresh(Now', died', held[q].id, held[q].writes, held[q].since)
    BY <1>4 DEF FreshCopy
  <2>1. held[q].id \in Ids /\ held[q].since \in Nat
    BY DEF IInv, Typed, Copies
  <2>2. held[q].since <= Last(versions).n /\ Fresh(Now, died, held[q].id, held[q].writes, held[q].since)
    BY DEF IInv, CopiesFresh, FreshCopy
  <2> QED BY <2>1, <2>2, FreshStays DEF IInv
<1>5. CopiesFresh'
  BY <1>4 DEF CopiesFresh, OnlyHolds
<1> QED BY <1>1, <1>2, <1>3, <1>5 DEF IInv

LEMMA Held == ASSUME Typed, NEW p \in Procs PROVE UNCHANGED held => OnlyHolds(p)
  BY DEF Typed, OnlyHolds

LEMMA OfHead ==
  ASSUME IInv, NEW p \in Procs, todo[p] # <<>>
  PROVE  /\ Head(todo[p]) \in Writes /\ Filter(p) \in SUBSET Ids /\ Matching(p) \subseteq DOMAIN Now
         /\ Matching(p) \subseteq Ids
<1>1. todo[p] \in Seq(Writes)
  BY DEF IInv, Typed
<1>2. Head(todo[p]) \in Writes
  BY <1>1
<1> QED BY <1>2, NowTyped DEF IInv, Writes, Filter, Matching

LEMMA HoldsOne ==
  ASSUME Typed, NEW p \in Procs, NEW copy \in Copies, held' = [held EXCEPT ![p] = copy]
  PROVE  OnlyHolds(p) /\ held'[p] = copy
  BY DEF Typed, OnlyHolds

LEMMA InsertsApart ==
  ASSUME IInv, NEW id \in Ids, ~InsertFails(id), DOMAIN Now' = DOMAIN Now \cup {id}, UNCHANGED <<unique, promised>>
  PROVE  Indexed'
<1> SUFFICES ASSUME unique, NEW a \in DOMAIN Now', NEW b \in DOMAIN Now', a # b, CodeOf[a] = CodeOf[b] PROVE FALSE
  BY DEF IInv, Indexed, Duplicates
<1>2. ~Duplicates
  BY Zenon DEF IInv, Indexed
<1>3. Coded(id) \cap DOMAIN Now = {}
  BY Zenon DEF InsertFails
<1>4. DOMAIN Now \subseteq Ids
  BY NowTyped DEF IInv
<1>5. \A other \in DOMAIN Now : CodeOf[other] # CodeOf[id]
  BY <1>3, <1>4 DEF Coded
<1>6. \A x, y \in DOMAIN Now : x # y => CodeOf[x] # CodeOf[y]
  BY <1>2 DEF Duplicates
<1> QED BY <1>5, <1>6

LEMMA InsertsOnce ==
  ASSUME IInv, NEW id \in Ids, ~InsertFails(id), DOMAIN Now' = DOMAIN Now \cup {id}, Inserted(id), UNCHANGED handed
  PROVE  Accounts' /\ born' \in [Ids -> Nat]
<1>1. id \notin DOMAIN Now
  BY DEF InsertFails
<1>2. born' \in [Ids -> Nat] /\ born'[id] = born[id] + 1 /\ \A i \in Ids \ {id} : born'[i] = born[i]
  BY DEF IInv, Typed, Inserted
<1>3. ASSUME NEW i \in Ids PROVE handed'[i] + (IF i \in DOMAIN Now' THEN 1 ELSE 0) <= born'[i]
  <2>1. handed[i] + (IF i \in DOMAIN Now THEN 1 ELSE 0) <= born[i] /\ handed[i] \in Nat /\ born[i] \in Nat
    BY DEF IInv, Typed, Accounts
  <2>2. CASE i = id
    BY <1>1, <1>2, <2>1, <2>2
  <2>3. CASE i # id
    BY <1>2, <2>1, <2>3
  <2> QED BY <2>2, <2>3
<1> QED BY <1>2, <1>3 DEF Accounts

LEMMA InsertStep == ASSUME IInv, NEW p \in Procs, Insert(p) PROVE IInv'
<1>1. todo[p] # <<>> /\ Head(todo[p]).op # "replace"
  BY DEF Insert, Doing
<1>2. PICK id \in Filter(p) :
        IF InsertFails(id)
          THEN todo' = [todo EXCEPT ![p] = <<>>] /\ UNCHANGED <<versions, scan, born>>
          ELSE Commit(With(id, {n})) /\ NextWrite(p, id) /\ Inserted(id)
  BY DEF Insert
<1>3. UNCHANGED <<unique, held, promised, handed, died>>
  BY DEF Insert
<1>4. CASE InsertFails(id)
  <2>1. GoesOn(p)
    BY <1>2, <1>4, EmptyGoesOn DEF IInv
  <2> QED BY <1>2, <1>3, <1>4, <2>1, QuietGoesOn
<1>5. CASE ~InsertFails(id)
  <2>1. id \in Ids /\ n \in Nat
    BY <1>1, OfHead, NowTyped DEF IInv
  <2>2. Wrote(id) /\ DOMAIN Now' = DOMAIN Now \cup {id}
    BY <1>2, <1>3, <1>5, <2>1, CommitWrote DEF IInv
  <2>3. GoesOn(p) /\ OnlyHolds(p)
    BY <1>1, <1>2, <1>3, <1>5, <2>1, NextWriteGoesOn, Held DEF IInv
  <2>4. Accounts' /\ Indexed' /\ born' \in [Ids -> Nat]
    BY <1>2, <1>3, <1>5, <2>1, <2>2, InsertsOnce, InsertsApart
  <2> QED BY <1>3, <2>1, <2>2, <2>3, <2>4, WriteStep DEF IInv, Typed
<1> QED BY <1>4, <1>5

(* The copies that options.Before and options.After ask for.               *)
LEMMA UpdateStep ==
  ASSUME IInv, NEW p \in Procs, Update(p)
  PROVE  IInv' /\ \A i \in DOMAIN Now \cap DOMAIN Now' : Now[i] \subseteq Now'[i]
<1>1. todo[p] # <<>> /\ Head(todo[p]).op # "replace"
  BY DEF Update, Doing
<1>2. PICK id \in Matching(p) :
        Commit(With(id, Now[id] \cup {n})) /\ NextWrite(p, id) /\ Give(p, Returned(p, id))
  BY DEF Update
<1>3. UNCHANGED <<unique, promised, born, handed, died>>
  BY DEF Update, history
<1>4. id \in DOMAIN Now /\ id \in Ids /\ n \in Nat /\ Now[id] \in SUBSET Nat
  BY <1>1, OfHead, NowTyped DEF IInv
<1>5. Wrote(id) /\ DOMAIN Now' = DOMAIN Now /\ Now'[id] = Now[id] \cup {n}
  BY <1>2, <1>3, <1>4, CommitWrote DEF IInv
<1>6. Accounts' /\ Indexed'
  BY <1>3, <1>5 DEF IInv, Accounts, Indexed, Duplicates
<1>7. GoesOn(p)
  BY <1>1, <1>2, <1>4, NextWriteGoesOn DEF IInv
<1>8. /\ Returned(p, id) \in Copies /\ Returned(p, id) # None
      /\ Returned(p, id).id = id /\ Returned(p, id).since \in {n - 1, n}
      /\ Returned(p, id).since = n => Returned(p, id).writes = Now'[id]
  <2>1. n - 1 \in Nat /\ n # n - 1
    BY NowTyped DEF IInv, n, Versions
  <2>2. id # 0
    BY <1>4, IdsAreInts
  <2> QED BY <1>4, <1>5, <2>1, <2>2 DEF Returned, Copies, None
<1> DEFINE copy == Returned(p, id)
<1>9. copy \in Copies /\ copy # None /\ copy.id = id /\ copy.since \in {n - 1, n} /\ (copy.since = n => copy.writes = Now'[id])
  BY <1>8
<1>10. UNCHANGED held \/ held' = [held EXCEPT ![p] = copy]
  BY <1>2 DEF Give
<1> HIDE DEF copy
<1>11. OnlyHolds(p) /\ (held'[p] = held[p] \/ held'[p] = copy)
  BY <1>9, <1>10, HoldsOne, Held DEF IInv
<1>12. ASSUME held'[p] = copy PROVE FreshCopy(p)'
  <2>1. Last(versions)'.n = n /\ n - 1 < n /\ n - 1 <= n
    BY <1>4, <1>5 DEF Wrote
  <2>2. copy.since <= Last(versions)'.n
    BY <1>4, <1>9, <2>1
  <2>3. Fresh(Now', died', id, copy.writes, copy.since)
    BY <1>4, <1>5, <1>9, <2>1 DEF Fresh
  <2> QED BY <1>9, <1>12, <2>2, <2>3 DEF FreshCopy
<1>13. died' \in [Ids -> Nat] /\ born' \in [Ids -> Nat] /\ handed' \in [Ids -> Nat]
  BY <1>3 DEF IInv, Typed
<1>14. IInv'
  BY <1>3, <1>4, <1>5, <1>6, <1>7, <1>11, <1>12, <1>13, WriteStep
<1>15. \A i \in DOMAIN Now \cap DOMAIN Now' : Now[i] \subseteq Now'[i]
  BY <1>4, <1>5, NowTyped DEF IInv, Wrote
<1> QED BY <1>14, <1>15

LEMMA UpsertInsertsStep == ASSUME IInv, NEW p \in Procs, UpsertInserts(p) PROVE IInv'
<1>1. todo[p] # <<>> /\ Head(todo[p]).op # "replace" /\ UNCHANGED <<unique, promised, handed, died>>
  BY DEF UpsertInserts, Doing
<1>2. CASE todo' = [todo EXCEPT ![p][1].op = "update"] /\ UNCHANGED <<versions, scan, born, held>>
  <2>1. GoesOn(p)
    BY <1>1, <1>2, TurnGoesOn DEF IInv
  <2> QED BY <1>1, <1>2, <2>1, QuietGoesOn
<1>3. ASSUME NEW id \in Filter(p) \ DOMAIN Now,
             ~InsertFails(id), Commit(With(id, {n})), Inserted(id), todo' = [todo EXCEPT ![p] = Tail(@)],
             IF Head(todo[p]).give = "after" THEN Give(p, [id |-> id, writes |-> {n}, since |-> n]) ELSE UNCHANGED held
      PROVE  IInv'
  <2>1. id \in Ids /\ n \in Nat /\ id # 0
    BY <1>1, OfHead, NowTyped, IdsAreInts DEF IInv
  <2>2. Wrote(id) /\ DOMAIN Now' = DOMAIN Now \cup {id} /\ Now'[id] = {n}
    BY <1>1, <1>3, <2>1, CommitWrote DEF IInv
  <2>3. GoesOn(p)
    <3>1. todo' = [todo EXCEPT ![p] = Tail(todo[p])]
      BY <1>3
    <3> QED BY <1>1, <3>1, TailSound, ListGoesOn DEF IInv
  <2>4. Accounts' /\ Indexed' /\ born' \in [Ids -> Nat]
    BY <1>1, <1>3, <2>1, <2>2, InsertsOnce, InsertsApart
  <2> DEFINE copy == [id |-> id, writes |-> {n}, since |-> n]
  <2>5. copy \in Copies /\ copy.id = id /\ copy.since = n /\ copy.writes = {n}
    BY <2>1 DEF Copies
  <2>6. UNCHANGED held \/ held' = [held EXCEPT ![p] = copy]
    BY <1>3 DEF Give
  <2> HIDE DEF copy
  <2>7. OnlyHolds(p) /\ (held'[p] = held[p] \/ held'[p] = copy)
    BY <2>5, <2>6, HoldsOne, Held DEF IInv
  <2>8. ASSUME held'[p] = copy PROVE FreshCopy(p)'
    <3>1. Last(versions)'.n = n /\ n <= n
      BY <2>1, <2>2 DEF Wrote
    <3>2. Fresh(Now', died', id, copy.writes, copy.since)
      BY <2>2, <2>5 DEF Fresh
    <3> QED BY <2>5, <2>8, <3>1, <3>2 DEF FreshCopy
  <2>9. died' \in [Ids -> Nat] /\ handed' \in [Ids -> Nat]
    BY <1>1 DEF IInv, Typed
  <2> QED BY <1>1, <2>1, <2>2, <2>3, <2>4, <2>7, <2>8, <2>9, WriteStep
<1> QED BY <1>2, <1>3 DEF UpsertInserts

LEMMA DeleteStep == ASSUME IInv, NEW p \in Procs, Delete(p) PROVE IInv' /\ DOMAIN Now' \subseteq DOMAIN Now
                                                               /\ \A i \in DOMAIN Now' : Now'[i] = Now[i]
<1>1. todo[p] # <<>> /\ Head(todo[p]).op # "replace"
  BY DEF Delete, Doing
<1>2. PICK id \in Matching(p) : Deleted(p, id) /\ (handed' = [handed EXCEPT ![id] = @ + 1] \/ UNCHANGED handed)
  BY DEF Delete
<1>3. id \in DOMAIN Now /\ id \in Ids /\ n \in Nat
  BY <1>1, OfHead, NowTyped DEF IInv
<1>4. Commit(Without(id)) /\ NextWrite(p, id) /\ died' = [died EXCEPT ![id] = n] /\ UNCHANGED <<unique, held, promised, born>>
  BY <1>2 DEF Deleted
<1>5. Wrote(id) /\ DOMAIN Now' = DOMAIN Now \ {id}
  BY <1>3, <1>4, RemoveWrote DEF IInv
<1>6. GoesOn(p) /\ OnlyHolds(p)
  BY <1>1, <1>3, <1>4, NextWriteGoesOn, Held DEF IInv
<1>7. handed' \in [Ids -> Nat] /\ handed'[id] \in {handed[id], handed[id] + 1} /\ \A i \in Ids \ {id} : handed'[i] = handed[i]
  BY <1>2, <1>3 DEF IInv, Typed
<1>8. Accounts'
  <2>1. ASSUME NEW i \in Ids PROVE handed'[i] + (IF i \in DOMAIN Now' THEN 1 ELSE 0) <= born'[i]
    <3>1. handed[i] + (IF i \in DOMAIN Now THEN 1 ELSE 0) <= born[i] /\ handed[i] \in Nat /\ born[i] \in Nat /\ born' = born
      BY <1>4 DEF IInv, Typed, Accounts
    <3>2. CASE i = id
      BY <1>3, <1>5, <1>7, <3>1, <3>2
    <3>3. CASE i # id
      BY <1>5, <1>7, <3>1, <3>3
    <3> QED BY <3>2, <3>3
  <2> QED BY <2>1 DEF Accounts
<1>9. Indexed'
  BY <1>4, <1>5 DEF IInv, Indexed, Duplicates
<1>10. died' \in [Ids -> Nat] /\ born' \in [Ids -> Nat]
  BY <1>3, <1>4 DEF IInv, Typed
<1>11. IInv'
  BY <1>3, <1>4, <1>5, <1>6, <1>7, <1>8, <1>9, <1>10, WriteStep
<1>12. \A i \in DOMAIN Now' : Now'[i] = Now[i]
  BY <1>5, NowTyped DEF IInv, Wrote
<1> QED BY <1>5, <1>11, <1>12

(* A replace is of a copy the caller has.                                  *)
LEMMA ReplacesOwn ==
  ASSUME IInv, NEW p \in Procs, Doing(p, "replace")
  PROVE  held[p] # None /\ held[p].id \in Filter(p) /\ held[p].id \in Ids
         /\ held[p].writes \in SUBSET Nat /\ held[p].since \in Nat
<1>1. todo[p] \in Seq(Writes) /\ todo[p] # <<>> /\ Head(todo[p]).op = "replace"
  BY DEF IInv, Typed, Doing
<1>2. Head(todo[p]) = todo[p][1] /\ 1 \in 1..Len(todo[p])
  BY <1>1
<1>3. Replaces(todo[p], held[p])
  BY <1>1, <1>2 DEF IInv, Requested, Sound, NoReplace
<1> QED BY <1>2, <1>3 DEF IInv, Typed, Replaces, Filter, Copies

LEMMA ReplaceStep ==
  ASSUME IInv, NEW p \in Procs, Replace(p)
  PROVE  /\ IInv'
         /\ \A i \in DOMAIN Now \cap DOMAIN Now' : ~(Now[i] \subseteq Now'[i]) =>
               \E q \in Procs : held[q].id = i /\ \E w \in Now[i] : w > held[q].since
<1>1. PICK id \in Matching(p) :
        IF id # held[p].id THEN UNCHANGED <<versions, scan, held>>
        ELSE /\ Commit(With(id, held[p].writes \cup {n}))
             /\ held' = [held EXCEPT ![p] = [id |-> id, writes |-> held[p].writes \cup {n}, since |-> n]]
  BY DEF Replace
<1>2. /\ held[p] # None /\ held[p].id \in Ids /\ held[p].writes \in SUBSET Nat /\ held[p].since \in Nat
      /\ todo[p] # <<>>
  BY ReplacesOwn DEF Replace, Doing
<1>3. todo' = [todo EXCEPT ![p] = <<>>] /\ UNCHANGED <<unique, promised, born, handed, died>>
  BY DEF Replace, history
<1>4. GoesOn(p)
  BY <1>3, EmptyGoesOn DEF IInv
<1>5. CASE id # held[p].id
  <2>1. UNCHANGED <<versions, held>>
    BY <1>1, <1>5
  <2>2. IInv'
    BY <1>3, <1>4, <2>1, QuietGoesOn
  <2> QED BY <2>1, <2>2 DEF Now, Last
<1>6. CASE id = held[p].id
  <2> DEFINE writes == held[p].writes \cup {n}
             copy == [id |-> id, writes |-> writes, since |-> n]
  <2>1. Commit(With(id, writes)) /\ held' = [held EXCEPT ![p] = copy]
    BY <1>1, <1>6
  <2>2. id \in DOMAIN Now /\ id \in Ids /\ n \in Nat /\ writes \in SUBSET Nat /\ n \in writes
    BY <1>2, OfHead, NowTyped DEF IInv
  <2>3. Wrote(id) /\ DOMAIN Now' = DOMAIN Now /\ Now'[id] = writes
    <3> HIDE DEF writes, copy
    <3> QED BY <1>3, <2>1, <2>2, CommitWrote DEF IInv
  <2>4. Accounts' /\ Indexed'
    BY <1>3, <2>3 DEF IInv, Accounts, Indexed, Duplicates
  <2>5. copy \in Copies /\ copy.id = id /\ copy.since = n /\ copy.writes = writes
    BY <2>2 DEF Copies
  <2>6. held[p].writes \subseteq writes
    OBVIOUS
  <2> HIDE DEF copy, writes
  <2>7. OnlyHolds(p) /\ held'[p] = copy
    BY <2>1, <2>5, HoldsOne DEF IInv
  <2>8. FreshCopy(p)'
    <3>1. Last(versions)'.n = n /\ n <= n
      BY <2>2, <2>3 DEF Wrote
    <3>2. Fresh(Now', died', id, copy.writes, copy.since)
      BY <2>2, <2>3, <2>5 DEF Fresh
    <3> QED BY <2>5, <2>7, <3>1, <3>2 DEF FreshCopy
  <2>9. died' \in [Ids -> Nat] /\ born' \in [Ids -> Nat] /\ handed' \in [Ids -> Nat]
    BY <1>3 DEF IInv, Typed
  <2>10. IInv'
    BY <1>3, <1>4, <2>2, <2>3, <2>4, <2>7, <2>8, <2>9, WriteStep
  <2>11. ASSUME NEW i \in DOMAIN Now \cap DOMAIN Now', ~(Now[i] \subseteq Now'[i])
         PROVE  \E q \in Procs : held[q].id = i /\ \E w \in Now[i] : w > held[q].since
    <3>1. i = id
      BY <2>3, <2>11, NowTyped DEF IInv, Wrote
    <3>2. Fresh(Now, died, id, held[p].writes, held[p].since)
      BY <1>2, <1>6 DEF IInv, CopiesFresh, FreshCopy
    <3>3. Now[id] # held[p].writes
      BY <2>3, <2>6, <2>11, <3>1
    <3> QED BY <1>6, <2>2, <3>1, <3>2, <3>3 DEF Fresh
  <2> QED BY <2>10, <2>11
<1> QED BY <1>5, <1>6

-----------------------------------------------------------------------------
(* The other steps.                                                        *)
LEMMA ReplicateStep == ASSUME IInv, Replicate PROVE IInv' /\ Now' = Now
<1>1. /\ versions' \in Seq(Versions) /\ versions' # <<>> /\ Now' = Now
      /\ Last(versions)' = Last(versions) /\ Len(versions') = Len(versions) - 1
      /\ \A i \in 1..Len(versions') : versions'[i] = versions[i + 1]
  BY ReplicateNow DEF IInv
<1>2. UNCHANGED <<unique, promised, todo, held, born, handed, died>>
  BY DEF Replicate, history
<1>3. Typed' /\ Requested' /\ Accounts' /\ Indexed'
  BY <1>1, <1>2 DEF IInv, Typed, Requested, Accounts, Indexed, Duplicates
<1>4. CopiesFresh'
  BY <1>1, <1>2 DEF IInv, CopiesFresh, FreshCopy
<1>5. VersionsFresh'
  <2>1. Len(versions) \in Nat
    BY NowTyped DEF IInv
  <2>2. \A i \in 1..Len(versions') : i + 1 \in 1..Len(versions)
    BY <1>1, <2>1
  <2> QED BY <1>1, <1>2, <2>2 DEF IInv, VersionsFresh
<1> QED BY <1>1, <1>3, <1>4, <1>5 DEF IInv

LEMMA CallStep == ASSUME IInv, NEW p \in Procs, Call(p) PROVE IInv' /\ Now' = Now
<1>1. UNCHANGED <<versions, unique, promised, held, born, handed, died>>
  BY DEF Call, server, history
<1>2. CASE UNCHANGED todo
  BY <1>1, <1>2, QuietRests DEF Now, Last
<1>3. ASSUME NEW request \in Requests(p), todo' = [todo EXCEPT ![p] = request] PROVE IInv' /\ Now' = Now
  <2>1. Sound(request, held[p])
    BY RequestsSound DEF IInv
  <2>2. todo' \in [Procs -> Seq(Writes)] /\ Requested'
    BY <1>1, <1>3, <2>1 DEF IInv, Typed, Requested, Sound
  <2> QED BY <1>1, <2>2, QuietStep DEF Now, Last
<1> QED BY <1>2, <1>3 DEF Call

LEMMA EndStep ==
  ASSUME IInv, NEW p \in Procs, NoMatch(p) \/ UpsertBegins(p) \/ ReplaceNothing(p) \/ Fails(p)
  PROVE  IInv' /\ Now' = Now
<1>1. UNCHANGED <<versions, unique, promised, held, born, handed, died>>
  BY DEF NoMatch, UpsertBegins, ReplaceNothing, Fails, server, history
<1>2. GoesOn(p)
  <2>1. CASE NoMatch(p)
    <3>1. todo[p] # <<>> /\ Head(todo[p]).op # "replace" /\ todo' = [todo EXCEPT ![p] = Tail(todo[p])]
      BY <2>1 DEF NoMatch, Doing
    <3> QED BY <3>1, TailSound, ListGoesOn DEF IInv
  <2>2. CASE UpsertBegins(p)
    <3>1. todo[p] # <<>> /\ Head(todo[p]).op # "replace" /\ todo' = [todo EXCEPT ![p][1].op = "upserting"]
      BY <2>2 DEF UpsertBegins, Doing
    <3> QED BY <3>1, TurnGoesOn DEF IInv
  <2>3. CASE ReplaceNothing(p) \/ Fails(p)
    BY <2>3, EmptyGoesOn DEF IInv, ReplaceNothing, Fails
  <2> QED BY <2>1, <2>2, <2>3
<1> QED BY <1>1, <1>2, QuietGoesOn DEF Now, Last

(* The server refuses a unique index while two documents share a code.     *)
LEMMA CreateIndexStep == ASSUME IInv, NEW p \in Procs, CreateIndex(p) PROVE IInv' /\ Now' = Now
<1>1. UNCHANGED <<versions, todo, held, born, handed, died>>
  BY DEF CreateIndex
<1>2. Now' = Now /\ Last(versions)' = Last(versions) /\ (Duplicates' <=> Duplicates)
  BY <1>1 DEF Now, Last, Duplicates
<1>3. unique' \in BOOLEAN /\ promised' \in BOOLEAN /\ Indexed'
  <2>1. PICK spec \in {[unique |-> TRUE], [unique |-> FALSE]} :
          IF BuildsUnique(spec) /\ Duplicates
            THEN UNCHANGED <<unique, promised>>
            ELSE unique' = (unique \/ BuildsUnique(spec)) /\ promised' \in {promised, promised \/ spec.unique}
    BY DEF CreateIndex
  <2>2. spec.unique \in BOOLEAN /\ BuildsUnique(spec) = spec.unique
    <3>1. BuildsUnique(spec) = spec.unique
      BY Zenon DEF BuildsUnique
    <3>2. spec.unique = TRUE \/ spec.unique = FALSE
      <4>1. CASE spec = [unique |-> TRUE]
        BY Zenon, <4>1
      <4>2. CASE spec = [unique |-> FALSE]
        BY Zenon, <4>2
      <4> QED BY <2>1, <4>1, <4>2
    <3> QED BY Zenon, <3>1, <3>2
  <2>3. unique \in BOOLEAN /\ promised \in BOOLEAN /\ (promised => unique) /\ (unique => ~Duplicates)
    BY DEF IInv, Typed, Indexed
  <2>4. CASE spec.unique /\ Duplicates
    BY <1>2, <2>1, <2>2, <2>3, <2>4 DEF Indexed
  <2>5. CASE ~(spec.unique /\ Duplicates)
    <3>1. unique' = (unique \/ spec.unique) /\ (promised' = promised \/ promised' = (promised \/ spec.unique))
      BY <2>1, <2>2, <2>5
    <3> QED BY <1>2, <2>2, <2>3, <2>5, <3>1 DEF Indexed
  <2> QED BY <2>4, <2>5
<1>4. Typed' /\ Requested' /\ Accounts'
  BY <1>1, <1>2, <1>3 DEF IInv, Typed, Requested, Accounts
<1>5. CopiesFresh' /\ VersionsFresh'
  BY <1>1, <1>2 DEF IInv, CopiesFresh, FreshCopy, VersionsFresh
<1> QED BY <1>2, <1>3, <1>4, <1>5 DEF IInv

LEMMA FindStep == ASSUME IInv, NEW p \in Procs, Find(p) PROVE IInv' /\ Now' = Now
<1>1. UNCHANGED <<versions, unique, promised, born, handed, died, todo>>
  BY DEF Find, server, history
<1>2. Now' = Now /\ Last(versions)' = Last(versions) /\ (Duplicates' <=> Duplicates)
  BY <1>1 DEF Now, Last, Duplicates
<1>3. PICK i \in 1..Len(versions) : \E id \in DOMAIN versions[i].docs :
        held' = [held EXCEPT ![p] = [id |-> id, writes |-> versions[i].docs[id], since |-> versions[i].n]]
  BY DEF Find
<1>4. PICK id \in DOMAIN versions[i].docs :
        held' = [held EXCEPT ![p] = [id |-> id, writes |-> versions[i].docs[id], since |-> versions[i].n]]
  BY <1>3
<1> DEFINE copy == [id |-> id, writes |-> versions[i].docs[id], since |-> versions[i].n]
<1>5. versions[i] \in Versions
  BY DEF IInv, Typed
<1>6. copy \in Copies /\ copy.id = id /\ copy.writes = versions[i].docs[id] /\ copy.since = versions[i].n
  BY <1>5 DEF Versions, Docs, Copies
<1>7. held' = [held EXCEPT ![p] = copy]
  BY <1>4
<1> HIDE DEF copy
<1>8. OnlyHolds(p) /\ held'[p] = copy
  BY <1>6, <1>7, HoldsOne DEF IInv
<1>9. copy.since <= Last(versions).n /\ Fresh(Now, died, copy.id, copy.writes, copy.since)
  BY <1>6 DEF IInv, VersionsFresh
<1>10. CopiesFresh'
  BY <1>1, <1>2, <1>8, <1>9 DEF IInv, CopiesFresh, FreshCopy, OnlyHolds
<1>11. Requested'
  <2>1. todo[p] = <<>>
    BY DEF Find, Collection
  <2>2. Len(<<>>) = 0 /\ <<>> \in Seq(Writes)
    OBVIOUS
  <2>3. NoReplace(<<>>)
    BY <2>2 DEF NoReplace
  <2>4. GoesOn(p)
    BY <1>1, <2>1, <2>3 DEF IInv, Typed, GoesOn
  <2> QED BY <1>8, <2>4, SoundAfter DEF IInv
<1>12. Typed' /\ Accounts' /\ Indexed' /\ VersionsFresh'
  BY <1>1, <1>2, <1>8 DEF IInv, Typed, Accounts, Indexed, VersionsFresh, OnlyHolds
<1> QED BY <1>2, <1>10, <1>11, <1>12 DEF IInv

LEMMA RestStep ==
  ASSUME IInv, Settle \/ Close \/ BeginScan \/ FindPaging \/ EndScan \/ UNCHANGED vars
  PROVE  IInv' /\ Now' = Now
<1>1. UNCHANGED <<versions, unique, promised, held, born, handed, died, todo>>
  BY DEF Settle, Close, BeginScan, FindPaging, EndScan, vars, server, history
<1> QED BY <1>1, QuietRests DEF Now, Last

-----------------------------------------------------------------------------
(* Every step keeps the invariant, and loses writes of others, or saves    *)
(* nothing, only with the excuse LossNeedsLaterWrite allows.               *)
Excused ==
  /\ \A id \in DOMAIN Now \cap DOMAIN Now' : ~(Now[id] \subseteq Now'[id]) =>
       \E p \in Procs : held[p].id = id /\ \E w \in Now[id] : w > held[p].since
  /\ \A p \in Procs : ReplaceNothing(p) => died[held[p].id] > held[p].since

LEMMA NothingSavedExcused ==
  ASSUME IInv, NEW p \in Procs, ReplaceNothing(p)
  PROVE  died[held[p].id] > held[p].since
<1>1. held[p] # None /\ held[p].id \in Filter(p) /\ Matching(p) = {}
  BY ReplacesOwn DEF ReplaceNothing
<1>2. held[p].id \notin DOMAIN Now
  BY <1>1 DEF Matching
<1>3. Fresh(Now, died, held[p].id, held[p].writes, held[p].since)
  BY <1>1 DEF IInv, CopiesFresh, FreshCopy
<1> QED BY <1>2, <1>3 DEF Fresh

LEMMA StepInv == IInv /\ [Next]_vars => IInv' /\ Excused
<1> SUFFICES ASSUME IInv, [Next]_vars PROVE IInv' /\ Excused
  OBVIOUS
<1>1. \A p \in Procs : ReplaceNothing(p) => died[held[p].id] > held[p].since
  BY NothingSavedExcused
<1>2. IInv' /\ (Now' = Now \/ DOMAIN Now \cap DOMAIN Now' = {} \/ \A id \in DOMAIN Now \cap DOMAIN Now' :
        Now[id] \subseteq Now'[id] \/ \E p \in Procs : held[p].id = id /\ \E w \in Now[id] : w > held[p].since)
  <2>1. CASE Settle \/ Close \/ BeginScan \/ FindPaging \/ EndScan \/ UNCHANGED vars
    BY <2>1, RestStep
  <2>2. CASE Replicate
    BY <2>2, ReplicateStep
  <2>3. ASSUME NEW p \in Procs, Call(p) PROVE IInv' /\ Now' = Now
    BY <2>3, CallStep
  <2>4. ASSUME NEW p \in Procs, NoMatch(p) \/ UpsertBegins(p) \/ ReplaceNothing(p) \/ Fails(p) PROVE IInv' /\ Now' = Now
    BY <2>4, EndStep
  <2>5. ASSUME NEW p \in Procs, CreateIndex(p) PROVE IInv' /\ Now' = Now
    BY <2>5, CreateIndexStep
  <2>6. ASSUME NEW p \in Procs, Find(p) PROVE IInv' /\ Now' = Now
    BY <2>6, FindStep
  <2>7. ASSUME NEW p \in Procs, Insert(p) \/ UpsertInserts(p)
        PROVE  IInv' /\ \A id \in DOMAIN Now \cap DOMAIN Now' : Now[id] \subseteq Now'[id]
    <3>1. IInv'
      BY <2>7, InsertStep, UpsertInsertsStep
    <3>2. UNCHANGED versions \/ \E id \in Ids : ~InsertFails(id) /\ Commit(With(id, {n}))
      <4>1. Filter(p) \in SUBSET Ids
        BY <2>7, OfHead DEF Insert, UpsertInserts, Doing
      <4> QED BY <2>7, <4>1 DEF Insert, UpsertInserts
    <3>3. CASE UNCHANGED versions
      <4>1. Now' = Now
        BY <3>3 DEF Now, Last
      <4> QED BY <3>1, <4>1
    <3>4. ASSUME NEW id \in Ids, ~InsertFails(id), Commit(With(id, {n}))
          PROVE  \A i \in DOMAIN Now : i # id /\ Now'[i] = Now[i]
      <4>1. id \notin DOMAIN Now
        BY <3>4 DEF InsertFails
      <4>2. n \in Nat
        BY NowTyped DEF IInv
      <4>3. Now' = With(id, {n})
        BY <3>4, <4>2, WithTyped, CommitNow DEF IInv
      <4>4. \A i \in DOMAIN Now \ {id} : With(id, {n})[i] = Now[i]
        BY DEF With
      <4> QED BY <4>1, <4>3, <4>4
    <3> QED BY <3>1, <3>2, <3>3, <3>4
  <2>8. ASSUME NEW p \in Procs, Update(p)
        PROVE  IInv' /\ \A id \in DOMAIN Now \cap DOMAIN Now' : Now[id] \subseteq Now'[id]
    BY <2>8, UpdateStep
  <2>9. ASSUME NEW p \in Procs, Delete(p)
        PROVE  IInv' /\ \A id \in DOMAIN Now \cap DOMAIN Now' : Now[id] \subseteq Now'[id]
    BY <2>9, DeleteStep
  <2>10. ASSUME NEW p \in Procs, Replace(p)
         PROVE  IInv' /\ \A id \in DOMAIN Now \cap DOMAIN Now' : ~(Now[id] \subseteq Now'[id]) =>
                          \E q \in Procs : held[q].id = id /\ \E w \in Now[id] : w > held[q].since
    BY <2>10, ReplaceStep
  <2> QED BY <2>1, <2>2, <2>3, <2>4, <2>5, <2>6, <2>7, <2>8, <2>9, <2>10 DEF Next, Apply
<1> QED BY <1>1, <1>2 DEF Excused

THEOREM Invariance == Spec => []IInv
<1>1. IInv /\ [Next]_vars => IInv'
  BY StepInv
<1> QED BY InitInv, <1>1, PTL DEF Spec

(* FindOneAndDelete gives a document to one caller.                        *)
THEOREM TakenOnce == Spec => []HandedOutOnce
<1>1. IInv => HandedOutOnce
  <2> SUFFICES ASSUME IInv, NEW id \in Ids PROVE handed[id] <= born[id]
    BY DEF HandedOutOnce
  <2>1. handed[id] \in Nat /\ born[id] \in Nat /\ handed[id] + (IF id \in DOMAIN Now THEN 1 ELSE 0) <= born[id]
    BY DEF IInv, Typed, Accounts
  <2> QED BY <2>1
<1> QED BY <1>1, Invariance, PTL

(* A unique index CreateIndex has said nil to is never violated.           *)
THEOREM CodesStayUnique == Spec => []OneDocPerCode
<1>1. IInv => OneDocPerCode
  BY DEF IInv, Indexed, OneDocPerCode
<1> QED BY <1>1, Invariance, PTL

(* A replace loses or drops writes only of documents written or deleted    *)
(* after the version its copy shows.                                       *)
THEOREM LossIsExcused == Spec => LossNeedsLaterWrite
<1>1. IInv /\ [Next]_vars => [Excused]_vars
  BY StepInv
<1>2. Spec => [][Excused]_vars
  BY Invariance, <1>1, PTL DEF Spec
<1>3. [][Excused]_vars => LossNeedsLaterWrite
  BY DEF Excused, LossNeedsLaterWrite
<1> QED BY <1>2, <1>3

-----------------------------------------------------------------------------
(* Scans with FindPaging.  The rank of a document is the number of those   *)
(* that stand before it in the sort order; it decides which page shows it. *)
Before(S, id) == {other \in S : other < id}
Rank(S, id) == Cardinality(Before(S, id))
Ranked(S, k) == {id \in S : Rank(S, id) < k}

(* The well-founded order of the naturals, as a principle about sets.      *)
LEMMA LeastOf ==
  ASSUME NEW S \in SUBSET Nat, S # {}
  PROVE  \E x \in S : \A y \in S : x <= y
<1> DEFINE less == {ss \in Nat \X Nat : ss[1] < ss[2]}
<1>1. IsWellFoundedOn(less, Nat)
  BY NatLessThanWellFounded DEF OpToRel
<1>2. PICK x \in S : \A y \in S : <<y, x>> \notin less
  <2> HIDE DEF less
  <2> QED BY <1>1, WFMin
<1>3. \A y \in S : ~(y < x)
  BY <1>2
<1> QED BY <1>2, <1>3

LEMMA GreatestOf ==
  ASSUME NEW S \in SUBSET Nat, S # {}, NEW top \in Nat, \A x \in S : x <= top
  PROVE  \E x \in S : \A y \in S : y <= x
<1> DEFINE bounds == {b \in Nat : \A x \in S : x <= b}
<1>1. PICK least \in bounds : \A b \in bounds : least <= b
  BY LeastOf
<1>2. least \in S
  <2> SUFFICES ASSUME least \notin S PROVE FALSE
    OBVIOUS
  <2>1. \A x \in S : x \in Nat /\ x <= least /\ x # least
    OBVIOUS
  <2>2. PICK x \in S : TRUE
    OBVIOUS
  <2>3. least \in Nat /\ \A y \in S : y <= least - 1
    BY <2>1
  <2>4. least - 1 \in Nat
    BY <2>1, <2>2, <2>3
  <2>5. least - 1 \in bounds
    BY <2>3, <2>4
  <2> QED BY <1>1, <2>3, <2>5
<1> QED BY <1>2

LEMMA RankIsNat ==
  ASSUME NEW S \in SUBSET Ids, NEW id \in Int
  PROVE  /\ S \subseteq Nat /\ IsFiniteSet(S) /\ IsFiniteSet(Before(S, id)) /\ Rank(S, id) \in Nat
<1>1. MaxId \in Nat /\ Ids = 1..MaxId
  BY RepositoryAssumption DEF Ids
<1>2. IsFiniteSet(1..MaxId)
  BY <1>1, FS_Interval
<1>3. IsFiniteSet(S) /\ Before(S, id) \in SUBSET S
  BY <1>1, <1>2, FS_Subset DEF Before
<1>4. IsFiniteSet(Before(S, id))
  BY <1>3, FS_Subset
<1> QED BY <1>1, <1>3, <1>4, FS_CardinalityType DEF Rank

(* A later document has a higher rank.                                     *)
LEMMA RankGrows ==
  ASSUME NEW S \in SUBSET Ids, NEW a \in S, NEW b \in S, a < b
  PROVE  Rank(S, a) < Rank(S, b)
<1>1. a \in Int /\ b \in Int /\ \A x \in S : x \in Int
  BY IdsAreInts
<1>2. /\ IsFiniteSet(Before(S, a)) /\ IsFiniteSet(Before(S, b)) /\ Rank(S, a) \in Nat /\ Rank(S, b) \in Nat
  <2>1. IsFiniteSet(Before(S, a)) /\ Rank(S, a) \in Nat
    BY <1>1, RankIsNat
  <2>2. IsFiniteSet(Before(S, b)) /\ Rank(S, b) \in Nat
    BY <1>1, RankIsNat
  <2> QED BY <2>1, <2>2
<1>3. a \notin Before(S, a) /\ Before(S, a) \cup {a} \in SUBSET Before(S, b)
  <2>1. \A x \in Before(S, a) : x \in S /\ x < a
    BY DEF Before
  <2>2. ~(a < a)
    BY <1>1
  <2>3. ASSUME NEW x \in Before(S, a) \cup {a} PROVE x \in S /\ x < b
    <3>1. CASE x = a
      BY <3>1
    <3>2. CASE x \in Before(S, a)
      <4>1. x \in S /\ x < a
        BY <2>1, <3>2
      <4>2. x \in Int
        BY ONLY <1>1, <4>1
      <4> QED BY ONLY <1>1, <4>1, <4>2, a < b
    <3> QED BY <2>3, <3>1, <3>2
  <2> QED BY <2>1, <2>2, <2>3 DEF Before
<1>4. Cardinality(Before(S, a) \cup {a}) = Cardinality(Before(S, a)) + 1
  BY <1>2, <1>3, FS_AddElement
<1>5. Cardinality(Before(S, a) \cup {a}) <= Cardinality(Before(S, b))
  BY <1>2, <1>3, FS_Subset
<1> QED BY <1>2, <1>4, <1>5 DEF Rank

(* If a document has rank k or more, exactly k documents have a lower one. *)
LEMMA RankedCount ==
  ASSUME NEW S \in SUBSET Ids, NEW id \in S, NEW k \in Nat, Rank(S, id) >= k
  PROVE  IsFiniteSet(Ranked(S, k)) /\ Cardinality(Ranked(S, k)) = k
<1>1. S \in SUBSET Nat /\ IsFiniteSet(S) /\ MaxId \in Nat /\ \A x \in S : x \in Int /\ x <= MaxId
  BY RankIsNat, RepositoryAssumption DEF Ids
<1>2. \A x \in S : Rank(S, x) \in Nat /\ IsFiniteSet(Before(S, x))
  BY <1>1, RankIsNat
<1>3. IsFiniteSet(Ranked(S, k)) /\ Cardinality(Ranked(S, k)) \in Nat
  <2>1. Ranked(S, k) \in SUBSET S
    BY DEF Ranked
  <2> QED BY <1>1, <2>1, FS_Subset, FS_CardinalityType
<1>4. Cardinality(Ranked(S, k)) >= k
  <2>1. id \in S \ Ranked(S, k)
    BY <1>2 DEF Ranked
  <2>2. S \ Ranked(S, k) \in SUBSET Nat /\ S \ Ranked(S, k) # {}
    BY <1>1, <2>1
  <2>3. PICK first \in S \ Ranked(S, k) : \A x \in S \ Ranked(S, k) : first <= x
    BY <2>2, LeastOf
  <2>4. Rank(S, first) >= k
    BY <1>2, <2>3 DEF Ranked
  <2>5. ASSUME NEW x \in S PROVE x < first <=> x \in Ranked(S, k)
    <3>1. CASE x < first
      BY <1>1, <2>3, <2>5, <3>1
    <3>2. CASE first < x
      BY <1>1, <1>2, <2>3, <2>4, <2>5, <3>2, RankGrows DEF Ranked
    <3>3. CASE first = x
      BY <1>1, <2>3, <3>3
    <3> QED BY <1>1, <2>3, <2>5, <3>1, <3>2, <3>3
  <2>6. Ranked(S, k) = Before(S, first)
    BY <2>5 DEF Ranked, Before
  <2> QED BY <2>4, <2>6 DEF Rank
<1>5. Cardinality(Ranked(S, k)) <= k
  <2>1. CASE Ranked(S, k) = {}
    BY <2>1, FS_EmptySet
  <2>2. CASE Ranked(S, k) # {}
    <3>1. Ranked(S, k) \in SUBSET Nat /\ \A x \in Ranked(S, k) : x <= MaxId
      BY <1>1 DEF Ranked
    <3>2. PICK last \in Ranked(S, k) : \A x \in Ranked(S, k) : x <= last
      BY <1>1, <2>2, <3>1, GreatestOf
    <3>3. last \in S /\ Rank(S, last) < k
      BY <3>2 DEF Ranked
    <3>4. Ranked(S, k) \in SUBSET (Before(S, last) \cup {last})
      BY <1>1, <3>1, <3>2 DEF Ranked, Before
    <3>5. last \notin Before(S, last)
      BY <1>1, <3>3 DEF Before
    <3>6. /\ IsFiniteSet(Before(S, last) \cup {last})
          /\ Cardinality(Before(S, last) \cup {last}) = Rank(S, last) + 1
      BY <1>2, <3>3, <3>5, FS_AddElement DEF Rank
    <3>7. Cardinality(Ranked(S, k)) <= Rank(S, last) + 1
      BY <3>4, <3>6, FS_Subset
    <3> QED BY <1>2, <1>3, <3>3, <3>7
  <2> QED BY <2>1, <2>2
<1> QED BY <1>3, <1>4, <1>5

(* A page is full when a document stands behind it.                        *)
LEMMA PageFull ==
  ASSUME NEW S \in SUBSET Ids, NEW id \in S, NEW first \in Nat, NEW size \in Nat, Rank(S, id) >= first + size
  PROVE  Cardinality({x \in S : first <= Rank(S, x) /\ Rank(S, x) < first + size}) = size
<1> DEFINE page == {x \in S : first <= Rank(S, x) /\ Rank(S, x) < first + size}
<1>1. \A x \in S : Rank(S, x) \in Nat
  <2>1. ASSUME NEW x \in S PROVE Rank(S, x) \in Nat
    <3>1. x \in Int
      BY IdsAreInts
    <3> QED BY <3>1, RankIsNat
  <2> QED BY <2>1
<1>2. /\ IsFiniteSet(Ranked(S, first + size)) /\ Cardinality(Ranked(S, first + size)) = first + size
      /\ Cardinality(Ranked(S, first)) = first
  BY <1>1, RankedCount
<1>3. page = Ranked(S, first + size) \ Ranked(S, first) /\ Ranked(S, first + size) \cap Ranked(S, first) = Ranked(S, first)
  BY <1>1 DEF Ranked
<1> HIDE DEF page
<1>4. Cardinality(page) = Cardinality(Ranked(S, first + size)) - Cardinality(Ranked(S, first))
  <2> DEFINE upper == Ranked(S, first + size)
             lower == Ranked(S, first)
  <2>1. IsFiniteSet(upper) /\ page = upper \ lower /\ upper \cap lower = lower
    BY <1>2, <1>3
  <2> HIDE DEF upper, lower
  <2>2. Cardinality(upper \ lower) = Cardinality(upper) - Cardinality(upper \cap lower)
    BY <2>1, FS_Difference
  <2>3. Cardinality(page) = Cardinality(upper) - Cardinality(lower)
    BY <2>1, <2>2
  <2> QED BY <2>3 DEF upper, lower
<1> QED BY <1>2, <1>4 DEF page

-----------------------------------------------------------------------------
(* A document is in its place when it was in every version the scan may    *)
(* have read and none sorted before it came or went.  It has the same rank *)
(* in all of them, so the pages read so far show it unless its rank is     *)
(* past them, or so high that the skip, an int, never reaches it.          *)
InPlace(id) == id \in scan.steady /\ \A other \in scan.some \ scan.steady : ~(other < id)
Bounds == \A i \in 1..Len(versions) :
  scan.steady \subseteq DOMAIN versions[i].docs /\ DOMAIN versions[i].docs \subseteq scan.some
Behind(id) ==
  \/ Rank(scan.steady, id) >= (scan.page - 1) * scan.size
  \/ Rank(scan.steady, id) > MaxInt
Scans == [page : Nat, size : Nat, seen : SUBSET Ids, steady : SUBSET Ids, some : SUBSET Ids]
ScanInv ==
  /\ scan \in Scans
  /\ scan.page > 0 => scan.size > 0 /\ Bounds /\ \A id \in Ids \ scan.seen : InPlace(id) => Behind(id)
  /\ MissNeedsShift

(* The skip FindPaging sends is never past the first document it should    *)
(* show, overflow or not.                                                  *)
First(page, size) == AtLeast(0, Skip(page, size), 0)

LEMMA SkipBounded ==
  ASSUME NEW page \in Nat \ {0}, NEW size \in Nat \ {0}
  PROVE  /\ First(page, size) \in Nat /\ First(page, size) <= MaxInt
         /\ (page - 1) * size <= MaxInt => First(page, size) = (page - 1) * size
<1> DEFINE offset == (page - 1) * size
<1>1. offset \in Nat /\ MaxInt \in Nat
  <2>1. page - 1 \in Nat
    OBVIOUS
  <2> QED BY <2>1, RepositoryAssumption
<1> HIDE DEF offset
<1>2. Wrapped(offset) \in Int /\ Wrapped(offset) <= MaxInt
  BY <1>1 DEF Wrapped
<1>3. offset <= MaxInt => Wrapped(offset) = offset
  BY <1>1 DEF Wrapped
<1>4. Skip(page, size) = Wrapped(offset)
  BY DEF Skip, offset
<1> QED BY <1>1, <1>2, <1>3, <1>4 DEF First, AtLeast, offset

(* In each version the documents before one in its place are the same.     *)
LEMMA SameRank ==
  ASSUME NEW docs \in Docs, NEW id \in Ids, InPlace(id),
         scan.steady \subseteq DOMAIN docs, DOMAIN docs \subseteq scan.some
  PROVE  id \in DOMAIN docs /\ DOMAIN docs \in SUBSET Ids /\ Rank(DOMAIN docs, id) = Rank(scan.steady, id)
<1>1. Before(DOMAIN docs, id) = Before(scan.steady, id)
  BY DEF InPlace, Before
<1> QED BY <1>1 DEF InPlace, Rank, Docs

LEMMA PageOfRanks ==
  ASSUME NEW docs \in Docs, NEW page \in Nat, NEW size \in Nat
  PROVE  PageOf(docs, page, size) =
           {id \in DOMAIN docs : /\ First(page, size) <= Rank(DOMAIN docs, id)
                                 /\ Rank(DOMAIN docs, id) < First(page, size) + size}
  BY DEF PageOf, First, Rank, Before

LEMMA InitScan == Init => ScanInv
  BY DEF Init, ScanInv, NoScan, Scans, MissNeedsShift, ScanOver

(* A write may disturb documents, it puts none in its place.               *)
LEMMA CommitScan ==
  ASSUME IInv, ScanInv, NEW docs \in Docs, Commit(docs)
  PROVE  ScanInv'
<1>1. /\ scan' = [scan EXCEPT !.steady = @ \cap DOMAIN docs, !.some = @ \cup DOMAIN docs]
      /\ scan \in Scans /\ DOMAIN docs \in SUBSET Ids
  BY DEF Commit, ScanInv, Docs
<1>2. /\ scan'.page = scan.page /\ scan'.size = scan.size /\ scan'.seen = scan.seen
      /\ scan'.steady = scan.steady \cap DOMAIN docs /\ scan'.some = scan.some \cup DOMAIN docs
      /\ scan' \in Scans
  BY <1>1 DEF Scans
<1>3. MissNeedsShift'
  <2> SUFFICES ASSUME ScanOver', NEW id \in scan'.steady \ scan'.seen
               PROVE  \E other \in scan'.some \ scan'.steady : other < id
    BY DEF MissNeedsShift
  <2>1. scan'.page = 0 /\ id \in scan.steady \ scan.seen
    BY <1>2 DEF ScanOver
  <2>2. ScanOver
    BY <1>2, <2>1 DEF ScanOver, NoScan
  <2>3. PICK other \in scan.some \ scan.steady : other < id
    BY <2>1, <2>2 DEF ScanInv, MissNeedsShift
  <2> QED BY <1>2, <2>3
<1>4. ASSUME scan.page > 0 PROVE Bounds'
  <2>1. Bounds /\ Len(versions) \in Nat
    BY <1>4, NowTyped DEF ScanInv, IInv
  <2>2. /\ Len(versions') = Len(versions) + 1
        /\ \A i \in 1..Len(versions) : versions'[i] = versions[i]
        /\ versions'[Len(versions) + 1].docs = docs
    <3>1. Typed
      BY DEF IInv
    <3>2. /\ Len(versions') = Len(versions) + 1
          /\ \A i \in 1..Len(versions) : versions'[i] = versions[i]
          /\ versions'[Len(versions) + 1] = [n |-> n, docs |-> docs]
      BY <3>1, CommitNow
    <3> QED BY <3>2
  <2> SUFFICES ASSUME NEW i \in 1..(Len(versions) + 1)
               PROVE  /\ scan'.steady \subseteq DOMAIN versions'[i].docs
                      /\ DOMAIN versions'[i].docs \subseteq scan'.some
    BY <2>2 DEF Bounds
  <2>3. i \in 1..Len(versions) \/ i = Len(versions) + 1
    BY <2>1
  <2> QED BY <1>2, <2>1, <2>2, <2>3 DEF Bounds
<1>5. ASSUME scan.page > 0, NEW id \in Ids \ scan.seen, InPlace(id)' PROVE InPlace(id) /\ Behind(id)'
  <2>1. InPlace(id)
    BY <1>2, <1>5 DEF InPlace
  <2>2. Before(scan.steady, id) = Before(scan'.steady, id)
    <3>1. Len(versions) \in 1..Len(versions)
      BY NowTyped DEF IInv
    <3>2. scan.steady \subseteq scan.some
      BY <1>5, <3>1 DEF ScanInv, Bounds
    <3>3. \A other : other < id /\ other \in scan'.some => other \in scan'.steady
      BY <1>5 DEF InPlace
    <3>4. \A other : other < id => (other \in scan.steady <=> other \in scan'.steady)
      BY <1>2, <3>2, <3>3
    <3> QED BY <3>4 DEF Before
  <2>3. Behind(id)
    BY <1>5, <2>1 DEF ScanInv
  <2> QED BY <1>2, <2>1, <2>2, <2>3 DEF Behind, Rank
<1> QED BY <1>2, <1>3, <1>4, <1>5 DEF ScanInv

LEMMA ReplicateScan == ASSUME IInv, ScanInv, Replicate PROVE ScanInv'
<1>1. scan' = scan /\ Len(versions) \in Nat
  BY NowTyped DEF Replicate, IInv
<1>2. /\ Len(versions') = Len(versions) - 1
      /\ \A i \in 1..Len(versions') : versions'[i] = versions[i + 1]
  BY ReplicateNow DEF IInv
<1>3. \A i \in 1..Len(versions') : i + 1 \in 1..Len(versions)
  BY <1>1, <1>2
<1>4. Bounds => Bounds'
  BY <1>1, <1>2, <1>3 DEF Bounds
<1> QED BY <1>1, <1>4 DEF ScanInv, Scans, InPlace, Behind, MissNeedsShift, ScanOver

LEMMA QuietScan == ASSUME ScanInv, UNCHANGED <<scan, versions>> PROVE ScanInv'
  BY DEF ScanInv, Scans, Bounds, InPlace, Behind, MissNeedsShift, ScanOver

LEMMA VersionTyped ==
  ASSUME IInv, NEW i \in 1..Len(versions)
  PROVE  versions[i].docs \in Docs /\ DOMAIN versions[i].docs \in SUBSET Ids
<1>1. versions[i] \in Versions
  BY DEF IInv, Typed
<1>2. versions[i].docs \in Docs
  BY <1>1 DEF Versions
<1> QED BY <1>2 DEF Docs

LEMMA BeginScanScan == ASSUME IInv, ScanInv, BeginScan PROVE ScanInv'
<1>1. PICK size \in Sizes, page \in 0..1 :
        scan' = [page |-> AtLeast(1, page, 1), size |-> AtLeast(1, size, 20), seen |-> {},
                 steady |-> {id \in Ids : \A i \in 1..Len(versions) : id \in DOMAIN versions[i].docs},
                 some |-> {id \in Ids : \E i \in 1..Len(versions) : id \in DOMAIN versions[i].docs}]
  BY DEF BeginScan
<1>2. versions' = versions /\ \A i \in 1..Len(versions) : DOMAIN versions[i].docs \subseteq Ids
  BY VersionTyped DEF BeginScan, server
<1>3. scan' \in Scans /\ scan'.page = 1 /\ scan'.size > 0
  <2>1. AtLeast(1, page, 1) = 1
    BY DEF AtLeast
  <2>2. size \in Int /\ AtLeast(1, size, 20) \in Nat \ {0}
    BY RepositoryAssumption DEF AtLeast
  <2> QED BY <1>1, <2>1, <2>2 DEF Scans
<1>4. Bounds'
  BY <1>1, <1>2 DEF Bounds
<1>5. \A id \in Ids : Behind(id)'
  <2> SUFFICES ASSUME NEW id \in Ids PROVE Behind(id)'
    OBVIOUS
  <2>1. scan'.steady \in SUBSET Ids /\ id \in Int /\ scan'.size \in Int
    BY <1>3, IdsAreInts DEF Scans
  <2>2. Rank(scan'.steady, id) \in Nat
    BY <2>1, RankIsNat
  <2>3. (scan'.page - 1) * scan'.size = 0
    BY <1>3, <2>1
  <2>4. Rank(scan'.steady, id) >= (scan'.page - 1) * scan'.size
    BY <2>2, <2>3
  <2> QED BY <2>4 DEF Behind, Rank, Before
<1>6. ~ScanOver'
  BY <1>3 DEF ScanOver
<1> QED BY <1>3, <1>4, <1>5, <1>6 DEF ScanInv, MissNeedsShift

(* A page shows each document in its place that is not past it; if it is   *)
(* not full, no document is past it.                                       *)
LEMMA FindPagingScan == ASSUME IInv, ScanInv, FindPaging PROVE ScanInv'
<1> DEFINE first == First(scan.page, scan.size)
<1>1. PICK i \in 1..Len(versions) :
        /\ scan.page > 0
        /\ scan' = [scan EXCEPT !.seen = @ \cup PageOf(versions[i].docs, scan.page, scan.size),
                                !.page = IF Cardinality(PageOf(versions[i].docs, scan.page, scan.size)) < scan.size
                                           THEN 0 ELSE @ + 1]
  BY DEF FindPaging
<1> DEFINE docs == versions[i].docs
           found == PageOf(docs, scan.page, scan.size)
<1>2. /\ scan \in Scans /\ scan.page \in Nat \ {0} /\ scan.size \in Nat \ {0} /\ Bounds /\ versions' = versions
  BY <1>1 DEF ScanInv, Scans, FindPaging, server
<1>3. docs \in Docs /\ scan.steady \subseteq DOMAIN docs /\ DOMAIN docs \subseteq scan.some
  BY <1>2, VersionTyped DEF Bounds
<1>4. /\ first \in Nat /\ first <= MaxInt /\ MaxInt \in Nat
      /\ (scan.page - 1) * scan.size <= MaxInt => first = (scan.page - 1) * scan.size
  BY <1>2, SkipBounded, RepositoryAssumption
<1>5. found = {id \in DOMAIN docs : /\ first <= Rank(DOMAIN docs, id)
                                    /\ Rank(DOMAIN docs, id) < first + scan.size}
  BY <1>2, <1>3, PageOfRanks
<1> HIDE DEF docs, first, found
<1>6. /\ scan' \in Scans /\ scan'.size = scan.size /\ scan'.steady = scan.steady /\ scan'.some = scan.some
      /\ scan'.seen = scan.seen \cup found
      /\ scan'.page = IF Cardinality(found) < scan.size THEN 0 ELSE scan.page + 1
  <2>1. found \in SUBSET Ids
    BY <1>3, <1>5 DEF Docs
  <2>2. scan' = [scan EXCEPT !.seen = scan.seen \cup found,
                             !.page = IF Cardinality(found) < scan.size THEN 0 ELSE scan.page + 1]
    BY <1>1, <1>2 DEF Scans, found, docs
  <2> DEFINE next == IF Cardinality(found) < scan.size THEN 0 ELSE scan.page + 1
  <2>3. next \in Nat
    BY <1>2
  <2> HIDE DEF next
  <2>4. scan' = [scan EXCEPT !.seen = scan.seen \cup found, !.page = next]
    BY <2>2 DEF next
  <2>5. /\ scan' \in Scans /\ scan'.size = scan.size /\ scan'.steady = scan.steady /\ scan'.some = scan.some
        /\ scan'.seen = scan.seen \cup found /\ scan'.page = next
    BY <1>2, <2>1, <2>3, <2>4 DEF Scans
  <2> QED BY <2>5 DEF next
<1>7. ASSUME NEW id \in Ids \ scan'.seen, InPlace(id)
      PROVE  /\ Cardinality(found) = scan.size
             /\ Rank(scan.steady, id) >= scan.page * scan.size \/ Rank(scan.steady, id) > MaxInt
  <2>1. id \in DOMAIN docs /\ DOMAIN docs \in SUBSET Ids /\ Rank(DOMAIN docs, id) = Rank(scan.steady, id)
    BY <1>3, <1>7, SameRank
  <2>2. Rank(scan.steady, id) \in Nat
    BY <2>1, RankIsNat, IdsAreInts
  <2>3. Behind(id)
    BY <1>1, <1>6, <1>7 DEF ScanInv
  <2>4. (scan.page - 1) * scan.size \in Nat /\ scan.page * scan.size = (scan.page - 1) * scan.size + scan.size
    BY <1>2
  <2>5. first <= Rank(scan.steady, id)
    BY <1>4, <2>2, <2>3, <2>4 DEF Behind
  <2>6. Rank(scan.steady, id) >= first + scan.size
    BY <1>2, <1>4, <1>5, <1>6, <1>7, <2>1, <2>2, <2>5
  <2>7. Cardinality(found) = scan.size
    BY <1>2, <1>4, <1>5, <2>1, <2>6, PageFull
  <2> QED BY <1>2, <1>4, <2>2, <2>3, <2>4, <2>6, <2>7 DEF Behind
<1>8. MissNeedsShift'
  <2> SUFFICES ASSUME ScanOver', NEW id \in scan'.steady \ scan'.seen
               PROVE  \E other \in scan'.some \ scan'.steady : other < id
    BY DEF MissNeedsShift
  <2>1. id \in Ids /\ Cardinality(found) # scan.size
    BY <1>2, <1>6 DEF ScanOver, Scans
  <2>2. ~InPlace(id)
    BY <1>7, <2>1
  <2> QED BY <1>6, <2>2 DEF InPlace
<1>9. ASSUME scan'.page > 0
      PROVE  scan'.size > 0 /\ Bounds' /\ \A id \in Ids \ scan'.seen : InPlace(id)' => Behind(id)'
  <2>1. scan'.page - 1 = scan.page
    BY <1>2, <1>6, <1>9
  <2>2. scan'.size > 0 /\ Bounds'
    BY <1>2, <1>6 DEF Bounds
  <2>3. ASSUME NEW id \in Ids \ scan'.seen, InPlace(id)' PROVE Behind(id)'
    <3>1. InPlace(id) /\ Rank(scan.steady, id)' = Rank(scan.steady, id)
      BY <1>6, <2>3 DEF InPlace, Rank, Before
    <3> QED BY <1>6, <1>7, <2>1, <2>3, <3>1 DEF Behind
  <2> QED BY <2>2, <2>3
<1> QED BY <1>6, <1>8, <1>9 DEF ScanInv

LEMMA EndScanScan == ASSUME ScanInv, EndScan PROVE ScanInv'
  BY DEF EndScan, ScanInv, NoScan, Scans, MissNeedsShift, ScanOver

LEMMA StepScan == IInv /\ ScanInv /\ [Next]_vars => ScanInv'
<1> SUFFICES ASSUME IInv, ScanInv, [Next]_vars PROVE ScanInv'
  OBVIOUS
<1>1. CASE Settle \/ Close \/ UNCHANGED vars
  BY <1>1, QuietScan DEF Settle, Close, vars, server
<1>2. CASE Replicate
  BY <1>2, ReplicateScan
<1>3. ASSUME NEW p \in Procs,
             \/ Call(p) \/ NoMatch(p) \/ UpsertBegins(p) \/ ReplaceNothing(p)
             \/ Fails(p) \/ CreateIndex(p) \/ Find(p)
      PROVE  ScanInv'
  BY <1>3, QuietScan
  DEF Call, NoMatch, UpsertBegins, ReplaceNothing, Fails, CreateIndex, Find, server
<1>4. ASSUME NEW p \in Procs, Insert(p) \/ UpsertInserts(p) \/ Update(p) \/ Delete(p) \/ Replace(p)
      PROVE  UNCHANGED <<scan, versions>> \/ \E docs \in Docs : Commit(docs)
  <2>1. Filter(p) \in SUBSET Ids /\ Matching(p) \subseteq DOMAIN Now /\ Matching(p) \subseteq Ids
    BY <1>4, OfHead DEF Insert, UpsertInserts, Update, Delete, Replace, Doing
  <2>2. Typed /\ n \in Nat /\ \A id \in DOMAIN Now : Now[id] \in SUBSET Nat
    BY NowTyped DEF IInv
  <2>3. \A id \in Ids : Without(id) \in Docs
    BY <2>2, WithoutTyped
  <2>4. \A id \in Ids : \A writes \in SUBSET Nat : With(id, writes) \in Docs
    BY <2>2, WithTyped
  <2>5. CASE Insert(p) \/ UpsertInserts(p)
    BY <2>1, <2>2, <2>4, <2>5 DEF Insert, UpsertInserts
  <2>6. CASE Update(p)
    <3>1. PICK id \in Matching(p) : Commit(With(id, Now[id] \cup {n}))
      BY <2>6 DEF Update
    <3>2. Now[id] \cup {n} \in SUBSET Nat
      BY <2>1, <2>2
    <3> QED BY <2>1, <2>4, <3>1, <3>2
  <2>7. CASE Delete(p)
    BY <2>1, <2>3, <2>7 DEF Delete, Deleted
  <2>8. CASE Replace(p)
    <3>1. held[p].writes \cup {n} \in SUBSET Nat
      BY <2>2, <2>8, ReplacesOwn DEF Replace
    <3> QED BY <2>1, <2>4, <2>8, <3>1 DEF Replace
  <2> QED BY <1>4, <2>5, <2>6, <2>7, <2>8
<1>5. CASE BeginScan \/ FindPaging \/ EndScan
  BY <1>5, BeginScanScan, FindPagingScan, EndScanScan
<1> QED BY <1>1, <1>2, <1>3, <1>4, <1>5, QuietScan, CommitScan DEF Next, Apply

(* A scan to the last page has seen each document that was in every        *)
(* version it may have read, unless one sorted before it came or went.     *)
THEOREM ScansMissNothing == Spec => []MissNeedsShift
<1>1. IInv /\ ScanInv /\ [Next]_vars => (IInv /\ ScanInv)'
  BY StepInv, StepScan
<1>2. Init => IInv /\ ScanInv
  BY InitInv, InitScan
<1>3. ScanInv => MissNeedsShift
  BY DEF ScanInv
<1> QED BY <1>1, <1>2, <1>3, PTL DEF Spec

-----------------------------------------------------------------------------
(* The seam to mongo.Client: the repository asks no more of it than the    *)
(* abstract connection promises, which MongoClient keeps.                  *)
LEMMA StepClient == [Next]_vars => [Client!Next]_(Client!vars)
<1> SUFFICES ASSUME [Next]_vars PROVE [Client!Next]_(Client!vars)
  OBVIOUS
<1>1. CASE Settle \/ Close
  BY <1>1 DEF Settle, Close, Client!Next
<1>2. CASE \E p \in Procs : Call(p) \/ CreateIndex(p) \/ Find(p)
  <2>1. PICK p \in Procs : Client!Tell(p)
    BY <1>2 DEF Call, CreateIndex, Find, Collection
  <2> QED BY <2>1 DEF Client!Next
<1>3. CASE \E p \in Procs : Apply(p) \/ Fails(p)
  <2>1. PICK p \in Procs : Apply(p) \/ Fails(p)
    BY <1>3
  <2>2. CASE Insert(p) \/ UpsertInserts(p)
    BY <2>2 DEF Insert, UpsertInserts, link, Client!vars
  <2>3. CASE Update(p) \/ Delete(p) \/ Replace(p)
    <3>1. UNCHANGED link
      BY <2>3 DEF Update, Delete, Deleted, Replace
    <3> QED BY <3>1 DEF link, Client!vars
  <2>4. CASE NoMatch(p) \/ UpsertBegins(p) \/ ReplaceNothing(p) \/ Fails(p)
    BY <2>4 DEF NoMatch, UpsertBegins, ReplaceNothing, Fails, link, Client!vars
  <2> QED BY <2>1, <2>2, <2>3, <2>4 DEF Apply
<1>4. CASE Replicate \/ BeginScan \/ FindPaging \/ EndScan \/ UNCHANGED vars
  BY <1>4 DEF Replicate, BeginScan, FindPaging, EndScan, vars, link, Client!vars
<1> QED BY <1>1, <1>2, <1>3, <1>4 DEF Next

LEMMA ClientIsAConnection == Spec => Client!Spec
<1>1. Init => Client!Init
  BY DEF Init
<1> QED BY <1>1, StepClient, PTL DEF Spec, Client!Spec

(* What any connection with the abstract promise tells its users: nothing  *)
(* before it is settled, and all of them the same, closed or not.          *)
ToldAlike == \A p, q \in Procs : told[p] # "none" /\ told[q] # "none" => told[p] = told[q]
ToldTrue ==
  /\ conn \in {"unsettled", "usable", "refused", "closed"}
  /\ told \in [Procs -> {"none", IF conn = "refused" THEN "error" ELSE "ok"}]
  /\ conn = "unsettled" => \A p \in Procs : told[p] = "none"

LEMMA ConnectionsTellAlike == Client!Spec => []ToldAlike
<1>1. Client!Init => ToldTrue
  BY DEF Client!Init, ToldTrue
<1>2. ToldTrue /\ [Client!Next]_(Client!vars) => ToldTrue'
  <2> SUFFICES ASSUME ToldTrue, [Client!Next]_(Client!vars) PROVE ToldTrue'
    OBVIOUS
  <2>1. CASE Client!Settle
    BY <2>1 DEF ToldTrue, Client!Settle
  <2>2. CASE Client!Close
    BY <2>2 DEF ToldTrue, Client!Close
  <2>3. ASSUME NEW p \in Procs, Client!Tell(p) PROVE ToldTrue'
    BY <2>3 DEF ToldTrue, Client!Tell
  <2>4. CASE UNCHANGED Client!vars
    BY <2>4 DEF ToldTrue, Client!vars
  <2> QED BY <2>1, <2>2, <2>3, <2>4 DEF Client!Next
<1>3. ToldTrue => ToldAlike
  BY DEF ToldTrue, ToldAlike
<1> QED BY <1>1, <1>2, <1>3, PTL DEF Client!Spec

(* So the callers of a repository are all let in, or all refused.          *)
THEOREM CallersToldAlike == Spec => []ToldAlike
  BY ClientIsAConnection, ConnectionsTellAlike, PTL
=============================================================================
