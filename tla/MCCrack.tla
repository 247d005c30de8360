------------------------------ MODULE MCCrack --------------------------------
(* Files of three chunks, from two payloads that are masked, one that is too  *)
(* short for it, and what is no video or no chunk, or cut within its header.  *)
EXTENDS Crack

MCKey == <<\h11, \h22, \h33, \h44, \h55, \h66, \h77>>
WrongA == <<\hFE, \h01, \h80, \h10, \h9C, \h00, \hA5>>
WrongB == <<\h00, \hFF, \h7F, \hF0, \h06, \h13, \h9F>>

Payload(h, b, t) == [format |-> "DKIF", head |-> h, body |-> b, tail |-> t]

\* All of decrypt_video is XOR: what holds for these holds for every content.
Longs ==
    {Payload(<<0, 1>>, b, t) : b \in {<<0, 0, 0>>, <<1, 0, 0>>, <<0, 1, 0>>, <<0, 0, 1>>},
                               t \in {<<>>, <<0>>, <<1>>}}
Even == Payload(<<1, 1>>, <<1, 0>>, <<0>>)
Four == Payload(<<0, 0>>, <<1, 1, 0, 1>>, <<1>>)
Short == Payload(<<1, 0>>, <<1>>, <<1>>)
Image == [Even EXCEPT !.format = "other"]

MCMisleads ==
    [p \in Longs \cup {Even, Four, Image} |->
        IF p \in Longs THEN WrongA ELSE IF p = Even THEN WrongB ELSE MCKey]

Video(p, t) == [kind |-> "video", plain |-> p, time |-> t + 1]
Other == [kind |-> "audio", plain |-> Short, time |-> 0]
Bad == [kind |-> "bad", plain |-> Short, time |-> 0]
Stub == [kind |-> "stub", plain |-> Short, time |-> 0]

Kinds(a) == {Video(a, 0), Video(Even, 1), Video(Four, 0), Video(Short, 0), Other, Bad}
MCFiles ==
    UNION {[chunks : {<<c, d, e>> : c, d \in Kinds(a), e \in Kinds(a) \cup {Stub}},
            nonce : BOOLEAN] : a \in Longs}
    \cup {[chunks |-> <<Video(Image, 0), Video(Even, 1)>>, nonce |-> FALSE]}
MCPad == <<1, 0>>
=============================================================================
