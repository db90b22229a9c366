---------------------------- MODULE ServiceCalls ----------------------------
(***************************************************************************)
(* Services that call each other over HTTP and gRPC: the request id from   *)
(* RequestID, through the contexts and the gRPC interceptors, to the next  *)
(* service; and HTTPClient, from PostJSON and GetJSON through redirects to *)
(* what it reports.                                                        *)
(***************************************************************************)
EXTENDS Integers, Sequences

CONSTANTS
  MaxNodes,     \* bound: requests that arrive at some service
  MaxCalls      \* bound: calls of PostJSON and GetJSON

ASSUME ServiceCallsAssumption == MaxNodes \in Nat /\ MaxCalls \in Nat

VARIABLES
  nodes,        \* requests that have arrived, each at a service
  calls         \* calls of an HTTPClient, each from the handler of a node

vars == <<nodes, calls>>

Blank == 0
Given == {-1, -2}         \* ids that a client outside chose
IsId(id) == id \in Given \cup {Blank} \cup 1..Len(nodes)   \* a node's uuid is its number
Statuses == {"open", "2xx", "3xx", "toGet", "again", "failed"}
Results == {"pending", "nil", "error"}

Init == nodes = <<>> /\ calls = <<>>

TypeOK ==
  /\ nodes \in Seq([parent : Nat, way : {"http", "grpc"}, verb : {"GET", "POST", "RPC"},
                    ctx : Int, base : Seq(Int), carried : Seq(Int), id : Int, logged : Int,
                    status : Statuses])
  /\ \A j \in 1..Len(nodes) :
       nodes[j].parent < j /\ nodes[j].id # Blank /\ IsId(nodes[j].id) /\ IsId(nodes[j].ctx)
  /\ calls \in Seq([caller : Nat, verb : {"GET", "POST"}, at : Nat, out : BOOLEAN, result : Results])
  /\ \A c \in 1..Len(calls) : calls[c].at \in 0..Len(nodes)

-----------------------------------------------------------------------------
(* The server side.                                                        *)

(* Fault variant: an id that came twice is taken for none.                 *)
SoleValue(carried) == IF Len(carried) # 1 THEN Blank ELSE Head(carried)
(* requestIDFromIncoming, and Header.Get: the first value.                 *)
FirstValue(carried) == IF carried = <<>> THEN Blank ELSE Head(carried)
(* RequestID and injectRequestID.                                          *)
RequestID(carried, uuid) == IF FirstValue(carried) = Blank THEN uuid ELSE FirstValue(carried)

(* Only the gRPC interceptors tell the logger of the id.                   *)
Arrive(parent, way, verb, ctx, base, carried) ==
  LET uuid == Len(nodes) + 1
      id == RequestID(carried, uuid)
  IN /\ Len(nodes) < MaxNodes
     /\ nodes' = Append(nodes,
          [parent |-> parent, way |-> way, verb |-> verb, ctx |-> ctx, base |-> base,
           carried |-> carried, id |-> id,
           logged |-> IF way = "grpc" THEN id ELSE Blank, status |-> "open"])

(* One request from outside, with an id, a blank one, several, or none;    *)
(* the services share nothing by which another could interfere.            *)
Enter ==
  /\ nodes = <<>>
  /\ \E carried \in {<<>>, <<Blank>>, <<-1>>, <<Blank, -1>>, <<-1, -2>>}, way \in {"http", "grpc"} :
       Arrive(0, way, IF way = "http" THEN "GET" ELSE "RPC", Blank, <<>>, carried)
  /\ UNCHANGED calls

-----------------------------------------------------------------------------
(* The client side.                                                        *)

WithOutgoingRequestID(ctx, base) == IF ctx = Blank THEN base ELSE Append(base, ctx)

(* A handler calls with its context or a detached one, and may pass the    *)
(* metadata or headers of its own request on.                              *)
CallGrpc == \E i \in 1..Len(nodes) :
  /\ \E ctx \in {nodes[i].id, Blank}, base \in {<<>>, nodes[i].carried} :
       Arrive(i, "grpc", "RPC", ctx, base, WithOutgoingRequestID(ctx, base))
  /\ UNCHANGED calls

(* PostJSON and GetJSON: a request on which Do sets no request id.         *)
CallHttp == \E i \in 1..Len(nodes), verb \in {"GET", "POST"}, out \in BOOLEAN :
  /\ Len(calls) < MaxCalls
  /\ verb = "GET" => out
  /\ Arrive(i, "http", verb, nodes[i].id, <<>>, <<>>)
  /\ calls' = Append(calls,
       [caller |-> i, verb |-> verb, at |-> Len(nodes) + 1, out |-> out, result |-> "pending"])

Reached(c) == nodes[calls[c].at]
Return(c, result) == calls' = [calls EXCEPT ![c].result = result] /\ UNCHANGED nodes

(* The service answers: with success, with a redirect that turns a POST    *)
(* into a GET (301, 302, 303) or one that does not (307, 308), with        *)
(* another 3xx, or with an error (external).                               *)
Answer == \E c \in 1..Len(calls), status \in Statuses \ {"open"} :
  /\ Reached(c).status = "open"
  /\ nodes' = [nodes EXCEPT ![calls[c].at].status = status]
  /\ UNCHANGED calls

(* http.Client follows redirects by itself (external).                     *)
Redirected == \E c \in 1..Len(calls) :
  /\ calls[c].result = "pending" /\ Reached(c).status \in {"toGet", "again"}
  /\ Arrive(calls[c].caller, "http", IF Reached(c).status = "toGet" THEN "GET" ELSE Reached(c).verb,
            Reached(c).ctx, <<>>, <<>>)
  /\ calls' = [calls EXCEPT ![c].at = Len(nodes) + 1]

(* Do fails: the network, the client's timeout, the context, too many      *)
(* redirects.                                                              *)
DoFails == \E c \in 1..Len(calls) : calls[c].result = "pending" /\ Return(c, "error")

(* Fault variant: only a 5xx is taken for an error.                        *)
DecodeJSONLenient(status, out, legible) ==
  IF out /\ ~legible THEN "error" ELSE "nil"
DecodeJSON(status, out, legible) ==
  IF status = "failed" \/ (out /\ ~legible) THEN "error" ELSE "nil"

Returns == \E c \in 1..Len(calls), legible \in BOOLEAN :
  /\ calls[c].result = "pending" /\ Reached(c).status \in {"2xx", "3xx", "failed"}
  /\ Return(c, DecodeJSON(Reached(c).status, calls[c].out, legible))

Next == Enter \/ Answer \/ CallGrpc \/ CallHttp \/ Redirected \/ DoFails \/ Returns

Spec == Init /\ [][Next]_vars

-----------------------------------------------------------------------------
(* Properties.                                                             *)

(* middleware/grpc.go:60 "so downstream services can correlate logs across *)
(* the call chain": a gRPC call made with its handler's context is served  *)
(* and logged under the caller's id, unless the handler passed metadata on *)
(* whose first id is blank.                                                *)
IdFollowsTheCalls ==
  \A j \in 1..Len(nodes) :
    LET node == nodes[j] IN
    /\ node.way = "grpc" => node.logged = node.id
    /\ node.way = "grpc" /\ node.parent # 0 /\ node.ctx # Blank =>
         \/ node.id = nodes[node.parent].id
         \/ node.base # <<>> /\ Head(node.base) = Blank

(* PostJSON says nil only if a service took the POST and answered 2xx; or  *)
(* if it was redirected and became a GET, or the answer was a 3xx, which   *)
(* decodeJSON does not tell from success.                                  *)
NilMeansPosted ==
  \A c \in 1..Len(calls) : calls[c].verb = "POST" /\ calls[c].result = "nil" =>
    \/ Reached(c).verb = "POST" /\ Reached(c).status = "2xx"
    \/ Reached(c).verb = "GET" /\ \E j \in 1..calls[c].at :
         nodes[j].parent = calls[c].caller /\ nodes[j].verb = "POST" /\ nodes[j].status = "toGet"
    \/ Reached(c).status = "3xx"
=============================================================================
