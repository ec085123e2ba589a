-------------------------------- MODULE MCIL --------------------------------
(* A call, and up to two conversations that it starts at the listener.     *)
EXTENDS IL, TLC

MCStarts   == <<1, 11, 21>>
MCMessages == "a" :> 3 @@ "b" :> 1
=============================================================================
