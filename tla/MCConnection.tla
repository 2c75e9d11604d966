----------------------------- MODULE MCConnection -----------------------------
(* A small connection: a buffer that just holds the longest request that is *)
(* not too long; a URL and a header that say what an Upgrade header says,   *)
(* or a part of it; two frames, one of them with an extended length; one    *)
(* other thread.                                                            *)
EXTENDS Connection, TLC

MCLines == "GET" :> <<"GET", "CR", "LF">>
             @@ "URL" :> <<"GET", "Upgrade", ":", "websocket", "CR", "LF">>
             @@ "Upgrade" :> <<"Upgrade", ":", "websocket", "CR", "LF">>
             @@ "Other" :> <<"Upgrade", ":", "h2c", "CR", "LF">>
             @@ "Key" :> <<"Key", ":", "k", "CR", "LF">>
             @@ "Long" :> [n \in 1 .. 17 |-> IF n = 16 THEN "CR" ELSE IF n = 17 THEN "LF" ELSE "x"]
             @@ "end" :> <<"CR", "LF">>
MCSize == [kind \in DOMAIN MCLines |-> Len(MCLines[kind])] @@ "f1" :> 6 @@ "f2" :> 4
MCBytes == {<<k, n>> : k \in DOMAIN MCSize, n \in 1 .. 17}
MCText == [byte \in {<<k, n>> : k \in DOMAIN MCLines, n \in 1 .. 17} |->
            IF byte[2] \in DOMAIN MCLines[byte[1]] THEN MCLines[byte[1]][byte[2]] ELSE "x"]
MCNUL == <<"NUL", 0>>
MCNewlines == {<<k, MCSize[k]>> : k \in DOMAIN MCLines}

MCRequests == {<<"GET", "Upgrade", "Key", "end">>, <<"URL", "Other", "end">>,
               <<"GET", "Upgrade", "end">>, <<"GET", "Long", "end">>}
MCFrames == <<"f1", "f2">>
MCExtended == {"f1"}
MCAnswers == {<<1, 3>>}
MCHandshake == <<1, 2, 3>>

=============================================================================
