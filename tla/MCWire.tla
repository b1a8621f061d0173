------------------------------- MODULE MCWire -------------------------------
(***************************************************************************)
(* The wire on both sides of the gateway: sending, framing, decoding and   *)
(* re-encoding share no state, so a behaviour is one of the four at work.  *)
(***************************************************************************)
EXTENDS Transport, Framing, UpstreamCodecs, StreamEncoders

VARIABLE part
wireVars == <<part, sendVars, framingVars, codecVars, encoderVars>>

WireInit ==
  /\ part \in {"send", "framing", "codec", "encoder"}
  /\ SendInit /\ (part = "send" \/ repeatable = [s \in Senders |-> FALSE])
  /\ FramingInit /\ (part = "framing" \/ (framing = "sse" /\ wire = <<>>))
  /\ CodecInit /\ (part = "codec" \/ upstream = "chat")
  /\ EncoderInit /\ (part = "encoder" \/ protocol = "chat")

Send == part = "send" /\ SendNext /\ UNCHANGED <<part, framingVars, codecVars, encoderVars>>
Frame == part = "framing" /\ FramingNext /\ UNCHANGED <<part, sendVars, codecVars, encoderVars>>
Decode == part = "codec" /\ CodecNext /\ UNCHANGED <<part, sendVars, framingVars, encoderVars>>
Render == part = "encoder" /\ EncoderNext /\ UNCHANGED <<part, sendVars, framingVars, codecVars>>

WireSpec ==
  /\ WireInit /\ [][Send \/ Frame \/ Decode \/ Render]_wireVars
  /\ \A s \in Senders : WF_wireVars(part = "send" /\ SendStep(s) /\ UNCHANGED <<part, framingVars, codecVars, encoderVars>>)

\* The four parts' types.
WireTypeOK == SendTypeOK /\ FramingTypeOK /\ CodecTypeOK /\ EncoderTypeOK

\* Every call of send ends (transport/http.py:393), a full pool of
\* connections, timeouts and endless 503s notwithstanding.
CallsEnd == part = "send" => SendEnds
=============================================================================
