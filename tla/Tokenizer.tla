------------------------------ MODULE Tokenizer ------------------------------
(* Tokenizer of searcher/src/tokenizer.cpp: getRawTokens cuts a query at      *)
(* spaces and operators, tokenize makes tokens of a text or of one word of a  *)
(* query; with it parseQuery of searcher.cpp. A text is a TLA+ string;        *)
(* positions count from 1.                                                    *)
EXTENDS PorterStemmer, QueryEval

Digits == {"0", "1", "2", "3", "4", "5", "6", "7", "8", "9"}
lowerCase == "abcdefghijklmnopqrstuvwxyz"
upperCase == "ABCDEFGHIJKLMNOPQRSTUVWXYZ"

\* character i of a text, if there is one
Char(text, i) == IF i <= Len(text) THEN SubSeq(text, i, i) ELSE ""

Small == {Char(lowerCase, k) : k \in 1 .. 26}
Capital == {Char(upperCase, k) : k \in 1 .. 26}
SmallOf == [c \in Capital |->
              Char(lowerCase, CHOOSE k \in 1 .. 26 : Char(upperCase, k) = c)]
AlphaNumeric == Small \cup Capital \cup Digits

tolower(c) == IF c \in Capital THEN SmallOf[c] ELSE c
isdigit(c) == c \in Digits
isalnum(c) == c \in AlphaNumeric

\* the last character of a word
back(w) == Char(w, Len(w))
-----------------------------------------------------------------------------
\* the loop of getRawTokens over the characters of a query
Scanned(query) ==
  LET pos[i \in 0 .. Len(query)] ==
        IF i = 0 THEN [currentToken |-> "", rawTokens |-> <<>>]
        ELSE LET at == pos[i - 1]
                 c == Char(query, i)
                 word == IF at.currentToken = "" THEN <<>> ELSE <<at.currentToken>>
                 op == IF c \in Operators THEN <<c>> ELSE <<>>
             IN  IF c = " " \/ c \in Operators
                   THEN [currentToken |-> "", rawTokens |-> at.rawTokens \o word \o op]
                   ELSE [at EXCEPT !.currentToken = @ \o c]
  IN  pos[Len(query)]

\* (error) the word at the end of the query is forgotten
RawTokensCut(query) == Scanned(query).rawTokens

getRawTokens(query) ==
  LET end == Scanned(query)
  IN  IF end.currentToken = "" THEN end.rawTokens
      ELSE Append(end.rawTokens, end.currentToken)
-----------------------------------------------------------------------------
\* what the stemmer of the program makes of a word: PorterStemmer or DummyStemmer
Stemmed(w, porter) == IF porter THEN stem(w) ELSE w

\* the word without apostrophes at its end
Stripped(w) == SubSeq(w, 1, Max({0} \cup {n \in 1 .. Len(w) : Char(w, n) # "'"}))

Stored(tokens, token) == IF token = "" THEN tokens ELSE Append(tokens, token)

\* (error) the next token starts with the count of points of the last one
FlushKeepsDots(state, porter) ==
  IF state.current_token = "" THEN state
  ELSE [state EXCEPT !.current_token = "",
          !.tokens = Stored(@, Stripped(Stemmed(state.current_token, porter)))]

\* flush_token: the current token is stemmed, stripped and stored
flush_token(state, porter) ==
  IF state.current_token = "" THEN state
  ELSE [current_token |-> "", dots_in_token |-> 0,
        tokens |-> Stored(state.tokens, Stripped(Stemmed(state.current_token, porter)))]

\* (error) a point or a comma at the end of a number counts too
SeparatesLast(state, c, next) ==
  /\ c \in {".", ","} /\ state.dots_in_token = 0
  /\ state.current_token # "" /\ isdigit(back(state.current_token))

\* a point or a comma between two digits, the first of the token
Separates(state, c, next) ==
  /\ c \in {".", ","} /\ state.dots_in_token = 0
  /\ state.current_token # "" /\ isdigit(back(state.current_token)) /\ isdigit(next)

\* an apostrophe inside a word
Joins(state, c, next) == c = "'" /\ state.current_token # "" /\ isalnum(next)

\* does the token end between a letter and a digit?
Changes(state, c) ==
  /\ state.current_token # "" /\ isalnum(back(state.current_token))
  /\ isdigit(back(state.current_token)) # isdigit(c)

Included(state, c) == [state EXCEPT !.current_token = @ \o c]

\* the loop for one character c, followed by next
Read(state, c, next, porter) ==
  IF isalnum(c) THEN
    Included(IF Changes(state, c) THEN flush_token(state, porter) ELSE state, tolower(c))
  ELSE IF Separates(state, c, next) THEN Included([state EXCEPT !.dots_in_token = 1], c)
  ELSE IF Joins(state, c, next) THEN Included(state, c)
  ELSE flush_token(state, porter)

tokenize(text, porter) ==
  LET pos[i \in 0 .. Len(text)] ==
        IF i = 0 THEN [current_token |-> "", dots_in_token |-> 0, tokens |-> <<>>]
        ELSE Read(pos[i - 1], Char(text, i), Char(text, i + 1), porter)
  IN  flush_token(pos[Len(text)], porter).tokens
-----------------------------------------------------------------------------
\* parseQuery up to the implied ANDs: the operators, and the tokens of the words
Tokenized(query, porter) ==
  LET raw == getRawTokens(query)
  IN  FlattenSeq([i \in DOMAIN raw |->
        IF isOperator(raw[i]) THEN <<raw[i]>> ELSE tokenize(raw[i], porter)])
=============================================================================
