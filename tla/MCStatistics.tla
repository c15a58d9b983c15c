---------------------------- MODULE MCStatistics ----------------------------
(* Two NGOs, two donors and two tokens, none of which group the streams    *)
(* alike.                                                                  *)
EXTENDS Statistics, TLC

MCStreams == 1 .. 3
MCNgoOf == <<"ngo1", "ngo1", "ngo2">>
MCDonorOf == <<"donor1", "donor2", "donor1">>
MCTokenOf == <<"token1", "token2", "token2">>
=============================================================================
