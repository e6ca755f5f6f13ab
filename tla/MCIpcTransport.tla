--------------------------- MODULE MCIpcTransport ---------------------------
(***************************************************************************)
(* A length prefix of four binary digits.  The payload <<1>> and the empty *)
(* one do not deserialize; the one of three bytes is over the limit.  The  *)
(* foreign frames are an empty one and a header that announces too much.   *)
(***************************************************************************)
EXTENDS IpcTransportProperties

MCPayloads == {<<0>>, <<1>>, <<0, 1>>, <<0, 0, 1>>}
MCValid == {<<0>>, <<0, 1>>}
MCForeign == {<<1, 0, 1, 1>>, <<0, 0, 0, 0>>}
=============================================================================
