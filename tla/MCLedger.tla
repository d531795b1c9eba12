------------------------------ MODULE MCLedger ------------------------------
(* Small instances of the reservation ledger.                              *)
EXTENDS Ledger, TLC

(* The requests made of the ledger.                                        *)

Zero == [d \in Devices |-> 0]
Full == [d \in Devices |-> TotalBytes[d]]

D(v, h) == [vram |-> v, host |-> h]

Req(mode, devices, ladder, credits, measured, used, hostUsed) ==
    [mode |-> mode, devices |-> devices, ladder |-> ladder, credits |-> credits,
     measured |-> measured, used |-> used, hostUsed |-> hostUsed]

MCTotals == [d \in Devices |-> 3]

\* One device or both, with and without credits, on an idle or a full host;
\* the ladder falls back from 2 units of VRAM to 1 of each kind.
MCRequests ==
    {Req("auto", <<>>, <<D(2, 0), D(1, 1)>>, c.credits, c.measured, used, 0) :
        c \in {[credits |-> {}, measured |-> <<>>], [credits |-> Instances, measured |-> <<>>],
               [credits |-> Instances, measured |-> Full]},
        used \in {Zero, Full}}
    \cup
    {Req("auto", <<>>, <<D(4, 0)>>, credits, <<>>, Zero, 0) : credits \in {{}, Instances}}
    \cup
    {Req("manual", <<2, 1>>, <<D(2, 1)>>, Instances, <<>>, Zero, 1)}

Symmetry == Permutations(Instances)
=============================================================================
