--------------------------- MODULE Clients_proofs ---------------------------
(***************************************************************************)
(* The clients of a service.  What holds of ServiceCalls for any number of *)
(* requests and calls, and of camunda.Client for any facts and bounds.     *)
(***************************************************************************)
EXTENDS ServiceCalls, Camunda, TLAPS

Nodes == [parent : Nat, way : {"http", "grpc"}, verb : {"GET", "POST", "RPC"},
          ctx : Int, base : Seq(Int), carried : Seq(Int), id : Int, logged : Int, status : Statuses]
Calls == [caller : Nat, verb : {"GET", "POST"}, at : Nat, out : BOOLEAN, result : Results]

Typed == nodes \in Seq(Nodes) /\ calls \in Seq(Calls)

(* The id of a request is the first that came with it, or is fresh.        *)
OneId(j) ==
  LET node == nodes[j] IN
  /\ node.parent < j
  /\ FirstValue(node.carried) # Blank => node.id = FirstValue(node.carried)
  /\ node.way = "grpc" => node.logged = node.id
  /\ node.way = "grpc" /\ node.parent # 0 /\ node.ctx # Blank =>
       node.id = nodes[node.parent].id \/ (node.base # <<>> /\ Head(node.base) = Blank)
Ids == \A j \in 1..Len(nodes) : OneId(j)

(* A POST that has become a GET was redirected, and a call that said nil   *)
(* was at an answer that is no error.                                      *)
Redirects(c) == \E j \in 1..calls[c].at :
  nodes[j].parent = calls[c].caller /\ nodes[j].verb = "POST" /\ nodes[j].status = "toGet"
OneCall(c) ==
  /\ calls[c].at \in 1..Len(nodes) /\ Reached(c).parent = calls[c].caller
  /\ calls[c].verb = "POST" => Reached(c).verb = "POST" \/ (Reached(c).verb = "GET" /\ Redirects(c))
  /\ calls[c].result = "nil" => Reached(c).status \in {"2xx", "3xx"}
AllCalls == \A c \in 1..Len(calls) : OneCall(c)

IInv == Typed /\ Ids /\ AllCalls

-----------------------------------------------------------------------------
(* A request that arrives leaves those before it as they are.              *)
LEMMA ArriveAppends ==
  ASSUME Typed, NEW parent \in Nat, NEW way \in {"http", "grpc"}, NEW verb \in {"GET", "POST", "RPC"},
         NEW ctx \in Int, NEW base \in Seq(Int), NEW carried \in Seq(Int),
         Arrive(parent, way, verb, ctx, base, carried)
  PROVE  /\ nodes' \in Seq(Nodes) /\ Len(nodes') = Len(nodes) + 1 /\ Len(nodes) \in Nat
         /\ \A j \in 1..Len(nodes) : nodes'[j] = nodes[j]
         /\ LET node == nodes'[Len(nodes) + 1] IN
              /\ node.parent = parent /\ node.way = way /\ node.verb = verb /\ node.ctx = ctx
              /\ node.base = base /\ node.carried = carried
              /\ node.id = RequestID(carried, Len(nodes) + 1)
              /\ node.way = "grpc" => node.logged = node.id
              /\ node.status = "open"
<1> DEFINE id == RequestID(carried, Len(nodes) + 1)
           node == [parent |-> parent, way |-> way, verb |-> verb, ctx |-> ctx, base |-> base, carried |-> carried,
                    id |-> id, logged |-> IF way = "grpc" THEN id ELSE Blank, status |-> "open"]
<1>1. Len(nodes) \in Nat
  BY DEF Typed
<1>2. id \in Int
  <2>1. FirstValue(carried) \in Int
    BY DEF FirstValue, Blank
  <2> QED BY <1>1, <2>1 DEF RequestID
<1>3. nodes' = Append(nodes, node)
  BY DEF Arrive
<1> HIDE DEF id
<1>4. (IF way = "grpc" THEN id ELSE Blank) \in Int
  BY <1>2 DEF Blank
<1>5. node \in Nodes
  BY <1>2, <1>4 DEF Nodes, Statuses
<1>6. /\ node.parent = parent /\ node.way = way /\ node.verb = verb /\ node.ctx = ctx
      /\ node.base = base /\ node.carried = carried /\ node.id = id
      /\ node.way = "grpc" => node.logged = node.id
      /\ node.status = "open"
  OBVIOUS
<1> HIDE DEF node
<1>7. /\ nodes' \in Seq(Nodes) /\ Len(nodes') = Len(nodes) + 1
      /\ \A j \in 1..Len(nodes) : nodes'[j] = nodes[j]
      /\ nodes'[Len(nodes) + 1] = node
  BY <1>3, <1>5 DEF Typed
<1> QED BY <1>1, <1>6, <1>7 DEF id

(* Ids survive, if the new request keeps to the rule.                      *)
LEMMA IdsGrow ==
  ASSUME IInv, nodes' \in Seq(Nodes), NEW k, k = Len(nodes) + 1, Len(nodes') = k,
         \A j \in 1..Len(nodes) : nodes'[j] = nodes[j], OneId(k)'
  PROVE  Ids'
<1>1. Len(nodes) \in Nat
  BY DEF IInv, Typed
<1>2. ASSUME NEW j \in 1..Len(nodes) PROVE OneId(j)'
  <2> nodes[j] \in Nodes
    BY DEF IInv, Typed
  <2>1. OneId(j) /\ nodes[j].parent \in Nat /\ nodes'[j] = nodes[j]
    BY DEF IInv, Ids, Nodes
  <2>2. nodes[j].parent # 0 => nodes'[nodes[j].parent] = nodes[nodes[j].parent]
    <3>1. nodes[j].parent < j
      BY <2>1 DEF OneId
    <3> QED BY <1>1, <2>1, <3>1
  <2> QED BY <2>1, <2>2 DEF OneId
<1>3. \A j \in 1..Len(nodes') : j \in 1..Len(nodes) \/ j = k
  BY <1>1
<1> QED BY <1>2, <1>3 DEF Ids

(* So do the calls that were under way.                                    *)
LEMMA CallStays ==
  ASSUME IInv, Len(nodes') >= Len(nodes), Len(nodes') \in Nat,
         \A j \in 1..Len(nodes) : nodes'[j] = nodes[j],
         NEW c \in 1..Len(calls), calls'[c] = calls[c]
  PROVE  OneCall(c)'
<1>1. OneCall(c) /\ Len(nodes) \in Nat /\ calls[c].at \in 1..Len(nodes)
  BY DEF IInv, AllCalls, OneCall, Typed
<1>2. nodes'[calls[c].at] = nodes[calls[c].at] /\ calls[c].at \in 1..Len(nodes')
  BY <1>1
<1>3. \A j \in 1..calls[c].at : nodes'[j] = nodes[j]
  BY <1>1
<1>4. Redirects(c) => Redirects(c)'
  BY <1>3 DEF Redirects
<1> QED BY <1>1, <1>2, <1>4 DEF OneCall, Reached

LEMMA EnterStep == ASSUME IInv, Enter PROVE IInv'
<1>1. PICK carried \in {<<>>, <<Blank>>, <<-1>>, <<Blank, -1>>, <<-1, -2>>} : \E way \in {"http", "grpc"} :
        Arrive(0, way, IF way = "http" THEN "GET" ELSE "RPC", Blank, <<>>, carried)
  BY DEF Enter
<1>2. PICK way \in {"http", "grpc"} : Arrive(0, way, IF way = "http" THEN "GET" ELSE "RPC", Blank, <<>>, carried)
  BY <1>1
<1>3. carried \in Seq(Int) /\ <<>> \in Seq(Int) /\ Blank \in Int
  <2>1. <<>> \in Seq(Int) /\ Blank \in Int /\ -1 \in Int /\ -2 \in Int
    BY DEF Blank
  <2>2. ASSUME NEW x \in Int, NEW y \in Int PROVE <<x>> \in Seq(Int) /\ <<x, y>> \in Seq(Int)
    OBVIOUS
  <2>3. <<Blank>> \in Seq(Int) /\ <<-1>> \in Seq(Int) /\ <<Blank, -1>> \in Seq(Int) /\ <<-1, -2>> \in Seq(Int)
    BY <2>1, <2>2
  <2> QED BY <2>1, <2>3, Zenon
<1>0. PICK k \in Nat : k = Len(nodes) + 1
  BY DEF IInv, Typed
<1>4. /\ nodes' \in Seq(Nodes) /\ Len(nodes') = k /\ Len(nodes) \in Nat
      /\ \A j \in 1..Len(nodes) : nodes'[j] = nodes[j]
      /\ nodes'[k].parent = 0 /\ nodes'[k].carried = carried /\ nodes'[k].id = RequestID(carried, k)
      /\ nodes'[k].way = "grpc" => nodes'[k].logged = nodes'[k].id
  <2>1. PICK verb \in {"GET", "POST", "RPC"} : Arrive(0, way, verb, Blank, <<>>, carried)
    BY <1>2
  <2>2. PICK none \in Seq(Int) : none = <<>>
    BY <1>3
  <2>3. Arrive(0, way, verb, Blank, none, carried)
    BY <2>1, <2>2
  <2>4. nodes'[k].parent = 0 /\ nodes'[k].carried = carried /\ nodes'[k].id = RequestID(carried, k)
    BY <1>0, <1>3, <2>3, ArriveAppends DEF IInv
  <2> QED BY <1>0, <1>3, <2>3, <2>4, ArriveAppends DEF IInv
<1>5. OneId(k)'
  BY <1>0, <1>4 DEF OneId, RequestID
<1>6. Ids'
  BY <1>0, <1>4, <1>5, IdsGrow
<1>7. calls' = calls
  BY DEF Enter
<1>8. AllCalls'
  BY <1>0, <1>4, <1>7, CallStays DEF AllCalls
<1> QED BY <1>4, <1>6, <1>7, <1>8 DEF IInv, Typed

LEMMA CallGrpcStep == ASSUME IInv, CallGrpc PROVE IInv'
<1>1. PICK i \in 1..Len(nodes) : \E ctx \in {nodes[i].id, Blank}, base \in {<<>>, nodes[i].carried} :
        Arrive(i, "grpc", "RPC", ctx, base, WithOutgoingRequestID(ctx, base))
  BY DEF CallGrpc
<1>2. PICK ctx \in {nodes[i].id, Blank} : \E base \in {<<>>, nodes[i].carried} :
        Arrive(i, "grpc", "RPC", ctx, base, WithOutgoingRequestID(ctx, base))
  BY <1>1
<1>3. PICK base \in {<<>>, nodes[i].carried} : Arrive(i, "grpc", "RPC", ctx, base, WithOutgoingRequestID(ctx, base))
  BY <1>2
<1>0. PICK k \in Nat : k = Len(nodes) + 1
  BY DEF IInv, Typed
<1> DEFINE carried == WithOutgoingRequestID(ctx, base)
<1>4. nodes[i] \in Nodes /\ Len(nodes) \in Nat
  BY DEF IInv, Typed
<1>5. base \in Seq(Int) /\ ctx \in Int /\ i \in Nat
  <2>1. <<>> \in Seq(Int)
    OBVIOUS
  <2>2. nodes[i].carried \in Seq(Int) /\ nodes[i].id \in Int /\ Blank \in Int
    BY <1>4 DEF Nodes, Blank
  <2>3. base \in Seq(Int)
    BY <2>1, <2>2
  <2>4. ctx \in Int
    BY <2>2
  <2>5. i \in Nat
    BY <1>4
  <2> QED BY <2>3, <2>4, <2>5
<1>6. carried \in Seq(Int)
  BY <1>5 DEF WithOutgoingRequestID
<1>7. ctx # Blank => FirstValue(carried) = IF base = <<>> THEN ctx ELSE Head(base)
  <2>1. Head(Append(base, ctx)) = (IF base = <<>> THEN ctx ELSE Head(base)) /\ Append(base, ctx) # <<>>
    <3>1. /\ Append(base, ctx) \in Seq(Int) /\ Append(base, ctx) # <<>> /\ Len(base) \in Nat
          /\ Append(base, ctx)[Len(base) + 1] = ctx /\ \A j \in 1..Len(base) : Append(base, ctx)[j] = base[j]
      BY <1>5
    <3>2. Head(Append(base, ctx)) = Append(base, ctx)[1]
      BY <3>1
    <3>3. CASE base = <<>>
      <4>1. Len(base) = 0
        BY <3>3
      <4> QED BY <3>1, <3>2, <3>3, <4>1
    <3>4. CASE base # <<>>
      <4>1. Head(base) = base[1] /\ 1 \in 1..Len(base)
        BY <1>5, <3>4
      <4> QED BY <3>1, <3>2, <3>4, <4>1
    <3> QED BY <3>3, <3>4
  <2> QED BY <2>1 DEF WithOutgoingRequestID, FirstValue
<1> HIDE DEF carried
<1>8. Arrive(i, "grpc", "RPC", ctx, base, carried)
  BY <1>3 DEF carried
<1>9. /\ nodes' \in Seq(Nodes) /\ Len(nodes') = k
      /\ \A j \in 1..Len(nodes) : nodes'[j] = nodes[j]
      /\ nodes'[k].parent = i /\ nodes'[k].carried = carried /\ nodes'[k].id = RequestID(carried, k)
      /\ nodes'[k].ctx = ctx /\ nodes'[k].base = base
      /\ nodes'[k].way = "grpc" => nodes'[k].logged = nodes'[k].id
  BY <1>0, <1>5, <1>6, <1>8, ArriveAppends DEF IInv
<1>10. FirstValue(carried) # Blank => nodes'[k].id = FirstValue(carried)
  BY <1>9 DEF RequestID
<1>11. ctx # Blank => nodes'[k].id = nodes[i].id \/ (base # <<>> /\ Head(base) = Blank)
  <2> SUFFICES ASSUME ctx # Blank, ~(base # <<>> /\ Head(base) = Blank) PROVE nodes'[k].id = nodes[i].id
    OBVIOUS
  <2>1. ctx = nodes[i].id
    OBVIOUS
  <2>2. CASE base = <<>>
    BY <1>7, <1>10, <2>1, <2>2
  <2>3. CASE base # <<>>
    <3>1. base = nodes[i].carried /\ Head(base) # Blank
      BY <2>3
    <3>2. FirstValue(base) = Head(base)
      BY <2>3 DEF FirstValue
    <3>3. nodes[i].id = Head(base)
      BY <3>1, <3>2 DEF IInv, Ids, OneId
    <3> QED BY <1>7, <1>10, <2>3, <3>1, <3>3
  <2> QED BY <2>2, <2>3
<1>12. nodes'[i] = nodes[i] /\ i < k
  BY <1>0, <1>4, <1>9
<1>13. OneId(k)'
  BY <1>9, <1>10, <1>11, <1>12 DEF OneId
<1>14. Ids'
  BY <1>0, <1>9, <1>13, IdsGrow
<1>15. calls' = calls
  BY <1>1 DEF CallGrpc
<1>16. AllCalls'
  BY <1>0, <1>4, <1>9, <1>15, CallStays DEF AllCalls
<1> QED BY <1>9, <1>14, <1>15, <1>16 DEF IInv, Typed

LEMMA CallHttpStep == ASSUME IInv, CallHttp PROVE IInv'
<1>1. PICK i \in 1..Len(nodes) : \E verb \in {"GET", "POST"}, out \in BOOLEAN :
        /\ Arrive(i, "http", verb, nodes[i].id, <<>>, <<>>)
        /\ calls' = Append(calls, [caller |-> i, verb |-> verb, at |-> Len(nodes) + 1, out |-> out, result |-> "pending"])
  BY DEF CallHttp
<1>2. PICK verb \in {"GET", "POST"} : \E out \in BOOLEAN :
        /\ Arrive(i, "http", verb, nodes[i].id, <<>>, <<>>)
        /\ calls' = Append(calls, [caller |-> i, verb |-> verb, at |-> Len(nodes) + 1, out |-> out, result |-> "pending"])
  BY <1>1
<1>3. PICK out \in BOOLEAN :
        /\ Arrive(i, "http", verb, nodes[i].id, <<>>, <<>>)
        /\ calls' = Append(calls, [caller |-> i, verb |-> verb, at |-> Len(nodes) + 1, out |-> out, result |-> "pending"])
  BY <1>2
<1>4. PICK k \in Nat : k = Len(nodes) + 1
  BY DEF IInv, Typed
<1> DEFINE call == [caller |-> i, verb |-> verb, at |-> k, out |-> out, result |-> "pending"]
<1>5. calls' = Append(calls, call) /\ i \in Nat
  BY <1>3, <1>4
<1>6. call \in Calls
  BY <1>5 DEF Calls, Results
<1>7. call.caller = i /\ call.verb = verb /\ call.at = k /\ call.result = "pending"
  OBVIOUS
<1> HIDE DEF call
<1>8. /\ calls' \in Seq(Calls) /\ Len(calls) \in Nat /\ Len(calls') = Len(calls) + 1
      /\ \A c \in 1..Len(calls) : calls'[c] = calls[c]
      /\ calls'[Len(calls) + 1] = call
  BY <1>5, <1>6 DEF IInv, Typed
<1>9. nodes[i].id \in Int /\ <<>> \in Seq(Int)
  <2>1. nodes[i] \in Nodes
    BY DEF IInv, Typed
  <2> QED BY <2>1 DEF Nodes
<1>10. /\ nodes' \in Seq(Nodes) /\ Len(nodes') = k /\ Len(nodes) \in Nat
       /\ \A j \in 1..Len(nodes) : nodes'[j] = nodes[j]
       /\ nodes'[k].parent = i /\ nodes'[k].way = "http" /\ nodes'[k].verb = verb
       /\ nodes'[k].carried = <<>>
  <2>1. verb \in {"GET", "POST", "RPC"} /\ "http" \in {"http", "grpc"}
    OBVIOUS
  <2>2. Arrive(i, "http", verb, nodes[i].id, <<>>, <<>>)
    BY <1>3
  <2>3. PICK none \in Seq(Int) : none = <<>>
    BY <1>9
  <2>4. Arrive(i, "http", verb, nodes[i].id, none, none)
    BY <2>2, <2>3
  <2>5. PICK ctx \in Int : ctx = nodes[i].id
    BY <1>9
  <2>6. Arrive(i, "http", verb, ctx, none, none)
    BY <2>4, <2>5
  <2>7. /\ nodes' \in Seq(Nodes) /\ Len(nodes') = k /\ Len(nodes) \in Nat
        /\ \A j \in 1..Len(nodes) : nodes'[j] = nodes[j]
    BY <1>4, <1>5, <2>1, <2>6, ArriveAppends DEF IInv
  <2>8. nodes'[k].parent = i /\ nodes'[k].way = "http" /\ nodes'[k].verb = verb /\ nodes'[k].carried = none
    BY <1>4, <1>5, <2>1, <2>6, ArriveAppends DEF IInv
  <2> QED BY <2>3, <2>7, <2>8
<1>11. OneId(k)'
  BY <1>4, <1>10 DEF OneId, FirstValue
<1>12. Ids'
  BY <1>4, <1>10, <1>11, IdsGrow
<1>13. \A c \in 1..Len(calls) : OneCall(c)'
  BY <1>4, <1>8, <1>10, CallStays
<1>14. \A c : c = Len(calls) + 1 => OneCall(c)'
  BY <1>4, <1>7, <1>8, <1>10 DEF OneCall, Reached
<1>15. AllCalls'
  <2>1. \A c \in 1..Len(calls') : c \in 1..Len(calls) \/ c = Len(calls) + 1
    BY <1>8
  <2> QED BY <1>13, <1>14, <2>1 DEF AllCalls
<1> QED BY <1>8, <1>10, <1>12, <1>15 DEF IInv, Typed

(* The new place of a redirected call is a child of the same handler.      *)
LEMMA RedirectedStep == ASSUME IInv, Redirected PROVE IInv'
<1>1. PICK c \in 1..Len(calls) :
        /\ calls[c].result = "pending" /\ Reached(c).status \in {"toGet", "again"}
        /\ Arrive(calls[c].caller, "http", IF Reached(c).status = "toGet" THEN "GET" ELSE Reached(c).verb,
                  Reached(c).ctx, <<>>, <<>>)
        /\ calls' = [calls EXCEPT ![c].at = Len(nodes) + 1]
  BY DEF Redirected
<1>2. PICK k \in Nat : k = Len(nodes) + 1
  BY DEF IInv, Typed
<1>3. calls[c] \in Calls /\ OneCall(c) /\ calls[c].at \in 1..Len(nodes) /\ Len(nodes) \in Nat
  BY DEF IInv, Typed, AllCalls, OneCall
<1>4. nodes[calls[c].at] \in Nodes /\ OneId(calls[c].at)
  BY <1>3 DEF IInv, Typed, Ids
<1>5. /\ calls[c].caller \in Nat /\ calls[c].caller < calls[c].at /\ calls[c].verb \in {"GET", "POST"}
      /\ calls[c].caller = nodes[calls[c].at].parent
  BY <1>3, <1>4 DEF Calls, OneCall, OneId, Reached
<1>6. PICK verb \in {"GET", "POST", "RPC"} : verb = IF Reached(c).status = "toGet" THEN "GET" ELSE Reached(c).verb
  BY <1>4 DEF Reached, Nodes
<1>7. PICK ctx \in Int : ctx = Reached(c).ctx
  BY <1>4 DEF Reached, Nodes
<1>8. PICK none \in Seq(Int) : none = <<>>
  <2>1. <<>> \in Seq(Int)
    OBVIOUS
  <2> QED BY <2>1
<1>9. Arrive(calls[c].caller, "http", verb, ctx, none, none)
  BY <1>1, <1>6, <1>7, <1>8
<1>10. /\ nodes' \in Seq(Nodes) /\ Len(nodes') = k
       /\ \A j \in 1..Len(nodes) : nodes'[j] = nodes[j]
  BY <1>2, <1>5, <1>9, ArriveAppends DEF IInv
<1>11. /\ nodes'[k].parent = calls[c].caller /\ nodes'[k].way = "http" /\ nodes'[k].verb = verb
       /\ nodes'[k].carried = none
  BY <1>2, <1>5, <1>9, ArriveAppends DEF IInv
<1>12. OneId(k)'
  <2>1. FirstValue(none) = Blank
    BY <1>8 DEF FirstValue
  <2>2. nodes'[k].parent < k
    BY <1>2, <1>3, <1>5, <1>11
  <2> QED BY <1>11, <2>1, <2>2 DEF OneId
<1>13. Ids'
  BY <1>2, <1>10, <1>12, IdsGrow
<1> DEFINE call == [calls[c] EXCEPT !.at = k]
<1>14. call \in Calls /\ call.caller = calls[c].caller /\ call.verb = calls[c].verb /\ call.at = k /\ call.result = "pending"
  BY <1>1, <1>3 DEF Calls
<1>15. calls' = [calls EXCEPT ![c] = call]
  BY <1>1, <1>2
<1> HIDE DEF call
<1>16. /\ calls' \in Seq(Calls) /\ Len(calls') = Len(calls) /\ calls'[c] = call
       /\ \A d \in 1..Len(calls) : d # c => calls'[d] = calls[d]
  BY <1>14, <1>15 DEF IInv, Typed
<1>17. OneCall(c)'
  <2>1. k \in 1..Len(nodes') /\ calls'[c].at = k /\ calls'[c].caller = calls[c].caller /\ calls'[c].verb = calls[c].verb
        /\ calls'[c].result = "pending"
    BY <1>2, <1>3, <1>10, <1>14, <1>16
  <2>2. calls[c].verb = "POST" => verb = "POST" \/ (verb = "GET" /\ Redirects(c)')
    <3> SUFFICES ASSUME calls[c].verb = "POST" PROVE verb = "POST" \/ (verb = "GET" /\ Redirects(c)')
      OBVIOUS
    <3>1. \A j \in 1..calls[c].at : j \in 1..k /\ nodes'[j] = nodes[j]
      <4>1. ASSUME NEW m \in 1..Len(nodes), NEW j \in 1..m PROVE j \in 1..k /\ j \in 1..Len(nodes)
        BY <1>2, <1>3
      <4> QED BY <1>3, <1>10, <4>1
    <3>2. CASE Reached(c).verb = "POST" /\ Reached(c).status = "toGet"
      <4>1. calls[c].at \in 1..k /\ nodes'[calls[c].at] = nodes[calls[c].at]
        BY <1>3, <3>1
      <4>2. Redirects(c)'
        BY <1>5, <2>1, <3>2, <4>1 DEF Redirects, Reached
      <4> QED BY <1>6, <3>2, <4>2
    <3>3. CASE Reached(c).verb = "POST" /\ Reached(c).status # "toGet"
      BY <1>6, <3>3
    <3>4. CASE Reached(c).verb = "GET" /\ Redirects(c)
      <4>1. Redirects(c)'
        BY <2>1, <3>1, <3>4 DEF Redirects
      <4> QED BY <1>6, <3>4, <4>1
    <3> QED BY <1>3, <3>2, <3>3, <3>4 DEF OneCall
  <2> QED BY <1>11, <2>1, <2>2 DEF OneCall, Reached
<1>18. AllCalls'
  <2>1. Len(nodes') >= Len(nodes) /\ Len(nodes') \in Nat
    BY <1>2, <1>3, <1>10
  <2>2. ASSUME NEW d \in 1..Len(calls), d # c PROVE OneCall(d)'
    BY <1>10, <1>16, <2>1, <2>2, CallStays
  <2> QED BY <1>16, <1>17, <2>2 DEF AllCalls
<1> QED BY <1>10, <1>13, <1>16, <1>18 DEF IInv, Typed

(* A service answers once.                                                 *)
LEMMA AnswerStep == ASSUME IInv, Answer PROVE IInv'
<1>1. PICK c \in 1..Len(calls), status \in Statuses \ {"open"} :
        Reached(c).status = "open" /\ nodes' = [nodes EXCEPT ![calls[c].at].status = status] /\ calls' = calls
  BY DEF Answer
<1>2. calls[c].at \in 1..Len(nodes) /\ Len(nodes) \in Nat
  BY DEF IInv, AllCalls, OneCall, Typed
<1>3. PICK a \in 1..Len(nodes) : a = calls[c].at
  BY <1>2
<1> DEFINE node == [nodes[a] EXCEPT !.status = status]
<1>4. nodes[a] \in Nodes /\ nodes[a].status = "open"
  BY <1>1, <1>3 DEF IInv, Typed, Reached
<1>5. /\ node \in Nodes /\ node.parent = nodes[a].parent /\ node.way = nodes[a].way /\ node.verb = nodes[a].verb
      /\ node.ctx = nodes[a].ctx /\ node.base = nodes[a].base /\ node.carried = nodes[a].carried
      /\ node.id = nodes[a].id /\ node.logged = nodes[a].logged
  BY <1>4 DEF Nodes
<1>6. nodes' = [nodes EXCEPT ![a] = node]
  BY <1>1, <1>3
<1> HIDE DEF node
<1>7. /\ nodes' \in Seq(Nodes) /\ Len(nodes') = Len(nodes) /\ nodes'[a] = node
      /\ \A j \in 1..Len(nodes) : j # a => nodes'[j] = nodes[j]
  BY <1>5, <1>6 DEF IInv, Typed
<1>8. \A j \in 1..Len(nodes) :
        /\ nodes'[j].parent = nodes[j].parent /\ nodes'[j].way = nodes[j].way /\ nodes'[j].verb = nodes[j].verb
        /\ nodes'[j].ctx = nodes[j].ctx /\ nodes'[j].base = nodes[j].base /\ nodes'[j].carried = nodes[j].carried
        /\ nodes'[j].id = nodes[j].id /\ nodes'[j].logged = nodes[j].logged
        /\ nodes[j].status # "open" => nodes'[j].status = nodes[j].status
  BY <1>4, <1>5, <1>7
<1>9. ASSUME NEW j \in 1..Len(nodes) PROVE OneId(j)'
  <2> nodes[j] \in Nodes
    BY DEF IInv, Typed
  <2>1. OneId(j) /\ nodes[j].parent \in Nat
    BY DEF IInv, Ids, Nodes
  <2>2. nodes[j].parent # 0 => nodes'[nodes[j].parent].id = nodes[nodes[j].parent].id
    <3>1. nodes[j].parent < j
      BY <2>1 DEF OneId
    <3> QED BY <1>2, <1>8, <2>1, <3>1
  <2> QED BY <1>8, <2>1, <2>2 DEF OneId
<1>10. ASSUME NEW d \in 1..Len(calls) PROVE OneCall(d)'
  <2>1. OneCall(d) /\ calls[d].at \in 1..Len(nodes)
    BY DEF IInv, AllCalls, OneCall
  <2>2. \A m \in 1..Len(nodes) : \A j \in 1..m : j \in 1..Len(nodes)
    BY <1>2
  <2>3. Redirects(d) => Redirects(d)'
    BY <1>1, <1>8, <2>1, <2>2 DEF Redirects
  <2> QED BY <1>1, <1>7, <1>8, <2>1, <2>3 DEF OneCall, Reached
<1> QED BY <1>1, <1>7, <1>9, <1>10 DEF IInv, Typed, Ids, AllCalls

LEMMA ReturnStep ==
  ASSUME IInv, NEW c \in 1..Len(calls), NEW result \in {"nil", "error"}, Return(c, result),
         result = "nil" => Reached(c).status \in {"2xx", "3xx"}
  PROVE  IInv'
<1>1. calls' = [calls EXCEPT ![c].result = result] /\ nodes' = nodes
  BY DEF Return
<1>2. calls[c] \in Calls /\ OneCall(c)
  BY DEF IInv, Typed, AllCalls
<1> DEFINE call == [calls[c] EXCEPT !.result = result]
<1>3. /\ call \in Calls /\ call.caller = calls[c].caller /\ call.verb = calls[c].verb
      /\ call.at = calls[c].at /\ call.result = result
  BY <1>2 DEF Calls, Results
<1>4. calls' = [calls EXCEPT ![c] = call]
  BY <1>1
<1> HIDE DEF call
<1>5. /\ calls' \in Seq(Calls) /\ Len(calls') = Len(calls) /\ calls'[c] = call
      /\ \A d \in 1..Len(calls) : d # c => calls'[d] = calls[d]
  BY <1>3, <1>4 DEF IInv, Typed
<1>6. OneCall(c)'
  BY <1>1, <1>2, <1>3, <1>5 DEF OneCall, Reached, Redirects
<1>7. \A d \in 1..Len(calls) : d # c => OneCall(d)'
  BY <1>1, <1>5 DEF IInv, AllCalls, OneCall, Reached, Redirects
<1>8. Ids'
  BY <1>1 DEF IInv, Ids, OneId
<1> QED BY <1>1, <1>5, <1>6, <1>7, <1>8 DEF IInv, Typed, AllCalls

-----------------------------------------------------------------------------
LEMMA InitInv == Init => IInv
<1> SUFFICES ASSUME Init PROVE IInv
  OBVIOUS
<1>1. nodes \in Seq(Nodes) /\ calls \in Seq(Calls) /\ Len(nodes) = 0 /\ Len(calls) = 0
  BY DEF Init
<1> QED BY <1>1 DEF IInv, Typed, Ids, AllCalls

LEMMA StepInv == IInv /\ [Next]_vars => IInv'
<1> SUFFICES ASSUME IInv, [Next]_vars PROVE IInv'
  OBVIOUS
<1>1. CASE Enter
  BY <1>1, EnterStep
<1>2. CASE Answer
  BY <1>2, AnswerStep
<1>3. CASE CallGrpc
  BY <1>3, CallGrpcStep
<1>4. CASE CallHttp
  BY <1>4, CallHttpStep
<1>5. CASE Redirected
  BY <1>5, RedirectedStep
<1>6. CASE DoFails
  BY <1>6, ReturnStep DEF DoFails
<1>7. CASE Returns
  <2>1. PICK c \in 1..Len(calls), legible \in BOOLEAN :
          /\ Reached(c).status \in {"2xx", "3xx", "failed"}
          /\ Return(c, DecodeJSON(Reached(c).status, calls[c].out, legible))
    BY <1>7 DEF Returns
  <2>2. PICK result \in {"nil", "error"} : result = DecodeJSON(Reached(c).status, calls[c].out, legible)
    BY DEF DecodeJSON
  <2>3. result = "nil" => Reached(c).status # "failed"
    BY <2>2 DEF DecodeJSON
  <2> QED BY <2>1, <2>2, <2>3, ReturnStep
<1>8. CASE UNCHANGED vars
  BY <1>8 DEF vars, IInv, Typed, Ids, OneId, AllCalls, OneCall, Reached, Redirects
<1> QED BY <1>1, <1>2, <1>3, <1>4, <1>5, <1>6, <1>7, <1>8 DEF Next

THEOREM Invariance == Spec => []IInv
  BY InitInv, StepInv, PTL DEF Spec

(* A gRPC call made with its handler's context carries the handler's id.   *)
THEOREM IdsFollow == Spec => []IdFollowsTheCalls
<1>1. IInv => IdFollowsTheCalls
  BY DEF IInv, Ids, OneId, IdFollowsTheCalls
<1> QED BY <1>1, Invariance, PTL

(* A POST that said nil was taken, redirected into a GET or answered 3xx.  *)
THEOREM NilIsAPost == Spec => []NilMeansPosted
<1>1. IInv => NilMeansPosted
  <2> SUFFICES ASSUME IInv, NEW c \in 1..Len(calls), calls[c].verb = "POST", calls[c].result = "nil"
               PROVE  \/ Reached(c).verb = "POST" /\ Reached(c).status = "2xx"
                      \/ Reached(c).verb = "GET" /\ Redirects(c)
                      \/ Reached(c).status = "3xx"
    BY DEF NilMeansPosted, Redirects
  <2> QED BY DEF IInv, AllCalls, OneCall
<1> QED BY <1>1, Invariance, PTL

-----------------------------------------------------------------------------
(* camunda.Client.                                                         *)

(* Whatever the environment says, New gets a configuration.                *)
LEMMA ConfigsAreTyped == FromEnv \cup NewClientConfigs \subseteq Configs
<1>1. NewClientConfigs \subseteq Configs
  BY DEF NewClientConfigs, Configs, Modes, Auths, Fields
<1>2. ASSUME NEW env \in [Mode : Modes \cup {"absent"}, Auth : Auths \cup {"absent"}, set : SUBSET Fields]
      PROVE  LoadConfigFromEnv(env) \in Configs
  <2>1. env.Mode \in Modes \cup {"absent"} /\ env.Auth \in Auths \cup {"absent"} /\ env.set \in SUBSET Fields
    OBVIOUS
  <2>2. /\ (IF env.Mode = "absent" THEN "self-managed" ELSE env.Mode) \in Modes
        /\ (IF env.Auth = "absent" THEN "none" ELSE env.Auth) \in Auths
    BY <2>1 DEF Modes, Auths
  <2> QED BY <2>1, <2>2 DEF LoadConfigFromEnv, Configs
<1> QED BY <1>1, <1>2 DEF FromEnv

(* The variables keep their types.                                         *)
THEOREM CamundaTypeCorrect == CamundaSpec => []CamundaTypeOK
<1>1. CamundaInit => CamundaTypeOK
  BY ConfigsAreTyped DEF CamundaInit, CamundaTypeOK
<1>2. CamundaTypeOK /\ [CamundaNext]_camundaVars => CamundaTypeOK'
  <2> SUFFICES ASSUME CamundaTypeOK, [CamundaNext]_camundaVars PROVE CamundaTypeOK'
    OBVIOUS
  <2> USE DEF CamundaTypeOK
  <2>1. CASE New
    <3>1. BuildZbcConfig(config) \in {"none", "basic", "oauth", "error"}
      BY DEF BuildZbcConfig, SaasConfig, SelfManagedConfig
    <3> QED BY <2>1, <3>1 DEF New
  <2>2. CASE Close
    BY <2>2 DEF Close
  <2>3. ASSUME NEW f \in Facts, PublishMessage(f) PROVE CamundaTypeOK'
    BY <2>3 DEF PublishMessage, setup
  <2>4. ASSUME NEW f \in Facts, NotSent(f) PROVE CamundaTypeOK'
    BY <2>4 DEF NotSent, setup
  <2>5. ASSUME NEW f \in Facts, Taken(f) PROVE CamundaTypeOK'
    BY <2>5 DEF Taken, setup
  <2>6. ASSUME NEW f \in Facts, Unauthenticated(f) \/ AnswerLost(f) PROVE CamundaTypeOK'
    BY <2>6 DEF Unauthenticated, AnswerLost, AfterError, setup
  <2>7. ASSUME NEW f \in Facts, Answered(f) PROVE CamundaTypeOK'
    BY <2>7 DEF Answered, setup
  <2>8. ASSUME NEW f \in Facts, Waits(f) PROVE CamundaTypeOK'
    BY <2>8 DEF Waits, setup
  <2>9. ASSUME NEW f \in Facts, Correlate(f) \/ Expire(f) PROVE CamundaTypeOK'
    BY <2>9 DEF Correlate, Expire, setup
  <2>10. CASE UNCHANGED camundaVars
    BY <2>10 DEF camundaVars, setup
  <2> QED BY <2>1, <2>2, <2>3, <2>4, <2>5, <2>6, <2>7, <2>8, <2>9, <2>10 DEF CamundaNext
<1> QED BY <1>1, <1>2, PTL DEF CamundaSpec

-----------------------------------------------------------------------------
(* What the number of messages of a fact depends on: while no              *)
(* PublishMessage of it failed there is one at most, and none before the   *)
(* gateway took it.                                                        *)
Accounted(f) ==
  \/ f \in failed
  \/ pc[f] \in {"idle", "sending"} /\ correlated[f] + buffered[f] = 0
  \/ pc[f] \in {"taken", "nil"} /\ correlated[f] + buffered[f] <= 1

AllAccounted == \A f \in Facts : Accounted(f)

LEMMA InitAccounted == CamundaInit => AllAccounted
  BY DEF CamundaInit, AllAccounted, Accounted

LEMMA StepAccounted == CamundaTypeOK /\ AllAccounted /\ [CamundaNext]_camundaVars => AllAccounted'
<1> SUFFICES ASSUME CamundaTypeOK, AllAccounted, [CamundaNext]_camundaVars, NEW g \in Facts PROVE Accounted(g)'
  BY DEF AllAccounted
<1>0. Accounted(g)
  BY DEF AllAccounted
<1> USE <1>0 DEF CamundaTypeOK, Accounted
<1>1. CASE New
  BY <1>1 DEF New
<1>2. CASE Close
  BY <1>2 DEF Close
<1>3. ASSUME NEW f \in Facts, PublishMessage(f) PROVE Accounted(g)'
  BY <1>3 DEF PublishMessage, setup
<1>4. ASSUME NEW f \in Facts, NotSent(f) PROVE Accounted(g)'
  BY <1>4 DEF NotSent, setup
<1>5. ASSUME NEW f \in Facts, Taken(f) PROVE Accounted(g)'
  BY <1>5 DEF Taken, setup
<1>6. ASSUME NEW f \in Facts, Unauthenticated(f) PROVE Accounted(g)'
  BY <1>6 DEF Unauthenticated, AfterError, setup
<1>7. ASSUME NEW f \in Facts, AnswerLost(f) PROVE Accounted(g)'
  BY <1>7 DEF AnswerLost, AfterError, ShouldRetryRequest, setup
<1>8. ASSUME NEW f \in Facts, Answered(f) PROVE Accounted(g)'
  BY <1>8 DEF Answered, setup
<1>9. ASSUME NEW f \in Facts, Waits(f) PROVE Accounted(g)'
  BY <1>9 DEF Waits, setup
<1>10. ASSUME NEW f \in Facts, Correlate(f) PROVE Accounted(g)'
  BY <1>10 DEF Correlate, setup
<1>11. ASSUME NEW f \in Facts, Expire(f) PROVE Accounted(g)'
  BY <1>11 DEF Expire, setup
<1>12. CASE UNCHANGED camundaVars
  BY <1>12 DEF camundaVars
<1> QED BY <1>1, <1>2, <1>3, <1>4, <1>5, <1>6, <1>7, <1>8, <1>9, <1>10, <1>11, <1>12 DEF CamundaNext

(* A fact is acted on twice only after a PublishMessage that returned an   *)
(* error: nothing in the client sends a message a second time once the     *)
(* gateway may have it.                                                    *)
THEOREM TwiceOnlyAfterFailure == CamundaSpec => []TwiceNeedsFailedPublish
<1>1. CamundaTypeOK /\ AllAccounted => TwiceNeedsFailedPublish
  BY DEF CamundaTypeOK, AllAccounted, Accounted, TwiceNeedsFailedPublish
<1> QED BY <1>1, CamundaTypeCorrect, InitAccounted, StepAccounted, PTL DEF CamundaSpec

-----------------------------------------------------------------------------
(* What New accepts, Enabled accepts.                                      *)
LEMMA BuiltIsEnabled == \A cfg \in Configs : BuildZbcConfig(cfg) # "error" => Enabled(cfg)
  BY DEF Configs, BuildZbcConfig, SaasConfig, SelfManagedConfig, Enabled

(* A client is only up with a configuration that Enabled does not deny.    *)
THEOREM ClientIsEnabled == CamundaSpec => []UpMeansEnabled
<1>1. CamundaInit => UpMeansEnabled
  BY DEF CamundaInit, UpMeansEnabled
<1>2. CamundaTypeOK /\ UpMeansEnabled /\ [CamundaNext]_camundaVars => UpMeansEnabled'
  <2> SUFFICES ASSUME CamundaTypeOK, UpMeansEnabled, [CamundaNext]_camundaVars PROVE UpMeansEnabled'
    OBVIOUS
  <2>1. CASE New
    BY <2>1, BuiltIsEnabled DEF New, UpMeansEnabled, Enabled, CamundaTypeOK
  <2>2. CASE client' = client /\ config' = config
    BY <2>2 DEF UpMeansEnabled, Enabled
  <2>3. CASE Close
    BY <2>3 DEF Close, UpMeansEnabled
  <2> QED BY <2>1, <2>2, <2>3 DEF CamundaNext, camundaVars, setup, PublishMessage, NotSent, Taken,
        Unauthenticated, AnswerLost, Answered, Waits, Correlate, Expire
<1> QED BY <1>1, <1>2, CamundaTypeCorrect, PTL DEF CamundaSpec
=============================================================================
