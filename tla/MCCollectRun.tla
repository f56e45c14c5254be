----------------------------- MODULE MCCollectRun -----------------------------
(***************************************************************************)
(* MCRequests covers two inputs of the processed files, an input and an    *)
(* event stage, "processed" by name after and before an input, "processed" *)
(* alone (--rebuild-processed), and more symbols than two batches hold.    *)
(***************************************************************************)
EXTENDS CollectRun

MCTwoSymbols == <<"s1", "s2">>
MCThreeSymbols == <<"s1", "s2", "s3">>

MCTwoInputs == { [symbols |-> MCTwoSymbols, stages |-> <<"daily", "adj_factor">>] }

MCRequests ==
    [symbols : {MCTwoSymbols},
     stages : { <<"daily", "fina_indicator">>, <<"daily", "processed">>,
                <<"processed", "daily">>, <<"processed">> }]
    \cup MCTwoInputs
    \cup { [symbols |-> MCThreeSymbols, stages |-> <<"dividend">>] }
=============================================================================
