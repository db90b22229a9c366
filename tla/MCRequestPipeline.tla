-------------------------- MODULE MCRequestPipeline --------------------------
(* RequestPipeline under the middleware orders a service may build.        *)
EXTENDS RequestPipeline

ReadmeOrder == [outer |-> <<"logging", "recovery">>, inner |-> <<>>]
InsideOrder == [outer |-> <<"logging">>, inner |-> <<"recovery">>]
AllInside == [outer |-> <<>>, inner |-> <<"logging", "recovery">>]
RecoveryTwice == [outer |-> <<"recovery">>, inner |-> <<"recovery", "logging">>]

AllOrders == {ReadmeOrder, InsideOrder, AllInside, RecoveryTwice}
ReadmeOrders == {ReadmeOrder}
=============================================================================
