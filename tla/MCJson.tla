------------------------------- MODULE MCJson -------------------------------
EXTENDS Json

\* "a" and "A"; other characters come from the documents.
MCTexts == <<<<Ch(97)>>, <<Ch(65)>>>>
MCLower(s) == [i \in DOMAIN s |-> IF s[i] = Ch(65) THEN Ch(97) ELSE s[i]]
MCNumberWidth(d) == IF d < 0 THEN 3 ELSE IF d < 10 THEN 1 ELSE 2
Key(n) == <<Quote, Ch(n), Quote, Colon>>
Three == <<OpenA, Num(1), Comma, Lit("true"), Space, Comma, Num(-12), CloseA>>
Pair == <<OpenO>> \o Key(97) \o <<OpenA, Lit("null"), CloseA, Comma>> \o Key(65)
        \o <<Quote, Backslash, U(233), Backslash, Quote, Backslash, U(1), Quote, CloseO>>
Nested == <<OpenA, OpenO, CloseO, Comma, OpenA, CloseA, CloseA>>
Text == <<Quote, Ch(97), Quote>>
MCDocuments == {<<Three, Text>>, <<Pair, Nested>>}
=============================================================================
