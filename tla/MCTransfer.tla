------------------------------ MODULE MCTransfer ------------------------------
(* Small instances of Transfer.                                              *)
EXTENDS Transfer

(* A download and a clipboard image that contend for the session's budget,   *)
(* and an empty file the session fetches from the client.                    *)
MixedSender == <<"server", "client", "server">>
MixedSize == <<2, 0, 1>>

(* Three uploads, which the budget cannot all have in flight.                *)
UploadSender == <<"client", "client", "client">>
UploadSize == <<1, 1, 1>>
=============================================================================
