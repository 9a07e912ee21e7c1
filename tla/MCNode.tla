------------------------------- MODULE MCNode -------------------------------
(***************************************************************************)
(* The parts of the node that share no state with each other, for TLC:     *)
(* each behaviour runs one of them while the others rest in an initial     *)
(* state of theirs.                                                        *)
(***************************************************************************)
EXTENDS EpochNotifier, Startup, ClaimSponsor, DataCommittee, ReorgSubscriptions,
        ProverClient, L1InfoTree, BatchCodec, ConfigRender, ClaimCalldata, TxBuilder

VARIABLE part  \* the part that runs

nodeVars == <<part, vars, startVars, sponsorVars, dacVars, subVars, proverVars,
              treeVars, codecVars, renderVars, calldataVars, builderVars>>

-----------------------------------------------------------------------------
(* Values of the constants                                                 *)

NoLimit == -1

\* A validium, a rollup, and a validium that can not be started.
MCStartConfigs ==
    {[claimSponsor |-> c[1], validium |-> c[2], version |-> c[3], da |-> c[4]] :
        c \in {<<TRUE, TRUE, "banana", "committee">>, <<FALSE, FALSE, "elderberry", "other">>,
               <<FALSE, TRUE, "elderberry", "other">>}}

MCCommittees ==
    <<[required |-> 2, members |-> <<1, 3>>],
      [required |-> 1, members |-> <<2>>],
      [required |-> 1, members |-> <<1, 2, 3>>]>>
MCHashes == <<7, 8>>

MCLeafHashes == {<<"a">>, <<"b">>}

\* Transactions before and after EIP-155, with fields of one and of two bytes.
MCTxs ==
    {[fields |-> f, chainID |-> c[1], v |-> c[2], rs |-> <<11>>, efficiency |-> e] :
        f \in {<<0, 11>>, <<11, 25>>}, c \in {<<0, 27>>, <<0, 36>>, <<2, 39>>}, e \in {11, 31}}
MCBlocks == {[delta |-> d, index |-> i, txs |-> << >>] : d \in {0, 11, 353}, i \in {0, 363}}
MCBatches ==
    LET one == {[delta |-> 11, index |-> 363, txs |-> <<t>>] : t \in MCTxs}
        two == {[delta |-> 0, index |-> 0, txs |-> <<t, u>>] :
                   t \in {x \in MCTxs : x.efficiency = 11}, u \in {x \in MCTxs : x.chainID = 2}}
    IN {<<b>> : b \in MCBlocks \cup one \cup two} \cup {<<b, c>> : b \in one, c \in {x \in MCBlocks : x.delta = 353}}

\* Texts, references to keys of the file, to the environment and to nothing,
\* and values with two parts.
MCValues ==
    {<<p>> : p \in {"A", "B", "C", "E", "X", "text"}}
        \cup {<<"B", "B">>, <<"A", "text">>, <<"C", "B">>}
MCDefaults == [{"A", "B", "C"} -> MCValues]
MCSpecifics == {<< >>, [C |-> <<"text">>], [A |-> <<"B", "text">>]}

\* The index of the first list is not in its last batch, that of the second
\* not in its last block.
MCBatchLists ==
    {<<[blocks |-> <<0, 1>>, ts |-> 0, coinbase |-> 1], [blocks |-> <<0>>, ts |-> 2, coinbase |-> 1]>>,
     <<[blocks |-> <<1, 0>>, ts |-> 0, coinbase |-> 1]>>}

-----------------------------------------------------------------------------

Parts == {"epochs", "startup", "sponsor", "committee", "subscriptions", "prover", "tree",
          "codec", "render", "calldata", "txbuilder"}

\* The state in which a part rests that has several initial states.
Rest(p) ==
    CASE p = "epochs"        -> pct = 0
      [] p = "startup"       -> components = {"rpc"} /\ config = [claimSponsor |-> TRUE,
                                    validium |-> TRUE, version |-> "banana", da |-> "committee"]
      [] p = "sponsor"       -> refuses = FALSE
      [] p = "subscriptions" -> /\ have = [s \in Subs |-> Empty] /\ rows = have /\ enabled = Subs
                                /\ net = [n \in Low .. High |-> 0]
      [] p = "codec"         -> /\ batch = <<[delta |-> 0, index |-> 0, txs |-> << >>]>>
                                /\ dec = [mode |-> "batch", data |-> EncodeBatchV2(batch), cut |-> 0,
                                          pos |-> 0, blocks |-> << >>, txs |-> << >>, res |-> "run"]
      [] p = "render"        -> files = <<[k \in {"A", "B", "C"} |-> <<"A", "text">>], << >>>>
      [] p = "calldata"      -> /\ trace = [caller |-> [n \in Calls |-> n - 1], call |-> [n \in Calls |->
                                      IF n = 2 THEN [to |-> "bridge", method |-> "claimAsset", gi |-> 1, err |-> FALSE]
                                      ELSE [to |-> "elsewhere", method |-> "other", gi |-> 0, err |-> FALSE]]]
                                /\ claimEv = [gi |-> 1, data |-> 0, isMessage |-> FALSE, by |-> 2]
                                /\ search = [stack |-> <<1>>, res |-> "run"]
      [] p = "txbuilder"     -> initCount = 0
      [] OTHER               -> TRUE

NodeInit ==
    /\ part \in Parts
    /\ \A p \in Parts : IF p = part THEN TRUE ELSE Rest(p)
    /\ Init /\ StartupInit /\ SponsorInit /\ DACInit /\ SubInit /\ ProverInit /\ TreeInit /\ RenderInit
    /\ BuilderInit
    /\ IF part = "codec" THEN CodecInit ELSE TRUE
    /\ IF part = "calldata" THEN CalldataInit ELSE TRUE

Unless(p, v) == IF part = p THEN TRUE ELSE UNCHANGED v

Rests ==
    /\ UNCHANGED part
    /\ Unless("epochs", vars) /\ Unless("startup", startVars) /\ Unless("sponsor", sponsorVars)
    /\ Unless("committee", dacVars) /\ Unless("subscriptions", subVars)
    /\ Unless("prover", proverVars) /\ Unless("tree", treeVars) /\ Unless("codec", codecVars)
    /\ Unless("render", renderVars) /\ Unless("calldata", calldataVars)
    /\ Unless("txbuilder", builderVars)

Of(p, A) == part = p /\ Rests /\ A

NodeNext ==
    \/ Of("epochs", Next)
    \/ Of("startup", StartupNext)
    \/ Of("sponsor", SponsorNext)
    \/ Of("committee", DACNext)
    \/ Of("subscriptions", SubNext)
    \/ Of("prover", ProverNext)
    \/ Of("tree", TreeNext)
    \/ Of("codec", CodecNext)
    \/ Of("render", RenderNext)
    \/ Of("calldata", CalldataNext)
    \/ Of("txbuilder", BuilderNext)

\* Tickers, goroutines and peers go on; failures are never forced.
NodeFairness ==
    /\ WF_vars(part = "epochs" /\ MineBlock)
    /\ WF_vars(part = "epochs" /\ Poll /\ UNCHANGED faults)
    /\ WF_vars(part = "epochs" /\ \E b \in FirstBlock .. LastBlock : Step(b))
    /\ WF_sponsorVars(part = "sponsor" /\ SponsorStep /\ UNCHANGED sponsorFaults)
    /\ WF_sponsorVars(part = "sponsor" /\ ManagerStep)
    /\ WF_dacVars(part = "committee" /\ (collectSignatures \/ \E i \in 1 .. 3 : RequestStep(i)))
    /\ WF_subVars(part = "subscriptions" /\ DetectorStep)
    /\ WF_subVars(part = "subscriptions" /\ \E s \in Subs : SubscribeStep(s) \/ ScanStep(s))
    /\ WF_proverVars(part = "prover" /\ ChanStep)
    /\ WF_proverVars(part = "prover" /\ ProverAnswers)
    /\ WF_proverVars(part = "prover" /\ JobEnds)

NodeSpec == NodeInit /\ [][NodeNext]_nodeVars /\ NodeFairness
=============================================================================
