------------------------------ MODULE MCGeminiRequests ------------------------------
(* Prompts of up to Limit characters: blanks at the front, then light or heavy ones. *)
EXTENDS GeminiRequests

Weights == {<<1, 1>>, <<2, 1>>, <<7, 7>>, <<1, 7>>, <<7, 1>>}

\* A prompt of n characters, the first b and the last tail of them blanks: the others
\* weigh w[1] in the first half and w[2] in the second.
Text(T, n, b, w, tail) ==
    LET weight(k) == IF k > n - tail THEN w[1] % 5 ELSE IF 2 * k <= n THEN w[1] ELSE w[2]
        width[k \in 0..n] == IF k <= b THEN 0 ELSE width[k - 1] + weight(k)
    IN  [template |-> T, length |-> n, tail |-> tail, width |-> width]

Shape == {x \in {1, 25, 33, 40} \X {0, 15, 32} \X {0, 1, 4, 12} : x[2] + x[3] < x[1]}

\* Styles that leave room, just enough of it, and too little.
MCPrompt == {Text(T, x[1], x[2], w, x[3]) : T \in {12, 26, 36}, x \in Shape, w \in Weights}

Setting(retry, most, times, known) ==
    [retries |-> retry, initial |-> 1, max |-> most, attempts |-> times, key |-> known]

MCConfig == {Setting(3, 3, 2, TRUE), Setting(2, 0, 3, TRUE), Setting(0, 8, 2, TRUE),
             Setting(1, 8, 1, TRUE), Setting(4, 2, 1, TRUE), Setting(2, 1, 2, FALSE)}

MCEvent == [kind: Kind \ {"api", "alarm"}, code: {0}]
           \union [kind: {"api"}, code: {400, 401, 408, 429, 503}]
=====================================================================================
