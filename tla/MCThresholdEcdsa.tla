-------------------------- MODULE MCThresholdEcdsa --------------------------
(* One of the signer vectors has the same share twice, and one of the        *)
(* message vectors has two messages.                                         *)
EXTENDS ThresholdEcdsa

MCSigners == {<<1, 2>>, <<3, 1>>, <<2, 4>>, <<2, 2>>}
MCMessages == {<<1, 1>>, <<0, 0>>, <<1, 2>>}

=============================================================================
