----------------------------- MODULE MCMsgFraming -----------------------------
(***************************************************************************)
(* Small instances of MsgFraming: three messages of different sizes.       *)
(***************************************************************************)
EXTENDS MsgFraming

CONSTANTS Json1, Json2, Json3,  \* the lengths of the json texts
          Junk                  \* a length field read in the middle of a message

\* Overload + head + json, and the end tag of the device services.
FrameSize(json) == OverloadSize + HeadSize + json + IF Device THEN OverloadSize ELSE 0

MCStart ==
    <<0, FrameSize(Json1), FrameSize(Json1) + FrameSize(Json2),
      FrameSize(Json1) + FrameSize(Json2) + FrameSize(Json3)>>

MCField ==
    [p \in 0..MCStart[4] |->
        IF \E k \in 1..3 : p = MCStart[k]
        THEN LET k == CHOOSE j \in 1..3 : p = MCStart[j]
             IN  MCStart[k + 1] - p - IF Device THEN OverloadSize ELSE 0
        ELSE Junk]
===============================================================================
