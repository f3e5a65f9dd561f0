------------------------------ MODULE MCCatchup ------------------------------
(* Instances of Catchup: which archive serves which file wrongly.           *)
EXTENDS Catchup

CONSTANTS a1, a2, a3, bk1, bk2, bk3, hdr, tx

NoneCorrupt   == {}
HeaderCorrupt == {<<a1, hdr>>}
AllCorrupt    == {<<a1, bk1>>, <<a1, hdr>>, <<a1, tx>>}

=============================================================================
