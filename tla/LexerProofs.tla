---------------------------- MODULE LexerProofs ----------------------------
(***************************************************************************)
(* A theorem about the scanner for every text, and every series of texts.  *)
(***************************************************************************)
EXTENDS Lexer, TLAPS

EOF == "END_OF_FILE"

-----------------------------------------------------------------------------
(* Tables. *)

\* A table maps to the second components of its pairs.
LEMMA TableValue ==
    ASSUME NEW pairs, NEW x \in DOMAIN Table(pairs)
    PROVE  \E p \in pairs : Table(pairs)[x] = p[2]
<1>1. \E p \in pairs : p[1] = x
  BY DEF Table
<1>2. (CHOOSE p \in pairs : p[1] = x) \in pairs
  BY <1>1
<1> QED
  BY <1>2 DEF Table

\* The tables of words and symbols have no entry for the end of the text.
LEMMA KeywordsKnown == \A w \in DOMAIN Keywords : Keywords[w] # EOF
  BY TableValue DEF Keywords, EOF

LEMMA OneCharKnown == \A c \in DOMAIN OneChar : OneChar[c] # EOF
<1> SUFFICES ASSUME NEW c \in DOMAIN OneChar
             PROVE  OneChar[c] # EOF
  OBVIOUS
<1> DEFINE lbrace == "{"
           rbrace == "}"
           comma == ","
           pairs ==
      {<<"+", "OPER_PLUS">>, <<"-", "OPER_MINUS">>, <<"*", "OPER_MUL">>,
       <<"/", "OPER_DIV">>, <<"%", "OPER_MOD">>, <<"^", "OPER_POW">>, <<"=", "ASSIGN">>,
       <<">", "GT">>, <<"<", "LT">>, <<":", "COLON">>, <<"(", "LPAREN">>,
       <<")", "RPAREN">>, <<lbrace, "LBRACE">>, <<rbrace, "RBRACE">>, <<"[", "LBRACK">>,
       <<"]", "RBRACK">>, <<comma, "COMMA">>, <<"!", "NOT">>, <<".", "DOT">>}
<1>1. \A p \in pairs : p[2] # EOF
  <2> HIDE DEF lbrace, rbrace, comma
  <2> QED
    BY DEF EOF
<1>2. OneChar = Table(pairs)
  BY DEF OneChar
<1> HIDE DEF pairs
<1> QED
  BY <1>1, <1>2, TableValue

LEMMA TwoCharKnown == \A c \in DOMAIN TwoChar : TwoChar[c] # EOF
  BY TableValue DEF TwoChar, EOF

-----------------------------------------------------------------------------
(* The end of the text. *)

IsSequence(s) == \E S : s \in Seq(S)

\* While a text is scanned, its end is marked by no token or by the last one,
\* with which the text is used up.
Marked == \A i \in DOMAIN tokens :
              tokens[i].type = EOF => i = Len(tokens) /\ ~valid_pos(at)

Inv == /\ IsSequence(tokens)
       /\ ~lexed => Marked
       /\ OneEnd

\* A sequence grows by a last element.
LEMMA Longer ==
    ASSUME NEW s, IsSequence(s), NEW e
    PROVE  /\ IsSequence(Append(s, e))
           /\ Len(s) \in Nat /\ DOMAIN s = 1 .. Len(s)
           /\ Len(Append(s, e)) = Len(s) + 1
           /\ DOMAIN Append(s, e) = 1 .. Len(s) + 1
           /\ Append(s, e)[Len(s) + 1] = e
           /\ \A i \in 1 .. Len(s) : Append(s, e)[i] = s[i]
<1>1. PICK S : s \in Seq(S)
  BY DEF IsSequence
<1> DEFINE T == S \cup {e}
<1>2. s \in Seq(T) /\ e \in T
  BY <1>1
<1> HIDE DEF T
<1>3. Append(s, e) \in Seq(T)
  BY <1>2
<1> QED
  BY <1>2, <1>3 DEF IsSequence

\* A token that does not mark the end, read where the text goes on.
LEMMA Inside ==
    ASSUME Inv, Scanning, NEW token, token.type # EOF,
           tokens' = Append(tokens, token), lexed' = lexed
    PROVE  Inv'
<1>1. /\ IsSequence(tokens') /\ DOMAIN tokens' = 1 .. Len(tokens) + 1
      /\ Len(tokens) \in Nat /\ DOMAIN tokens = 1 .. Len(tokens)
      /\ tokens'[Len(tokens) + 1] = token
      /\ \A i \in 1 .. Len(tokens) : tokens'[i] = tokens[i]
  BY Longer DEF Inv
<1>2. \A i \in 1 .. Len(tokens) : tokens[i].type # EOF
  BY <1>1 DEF Inv, Scanning, Marked
<1>3. Marked'
  <2> SUFFICES ASSUME NEW i \in DOMAIN tokens'
               PROVE  tokens'[i].type # EOF
    BY DEF Marked
  <2> QED
    BY <1>1, <1>2
<1> QED
  BY <1>1, <1>3 DEF Inv, OneEnd, Scanning

LEMMA ScanInside ==
    ASSUME Inv,
           ScanWord \/ ScanNumber \/ ScanSymbol \/ ScanString \/ ScanComment \/ ScanUnknown
    PROVE  Inv'
<1>1. Scanning /\ lexed' = lexed
  BY DEF ScanWord, ScanNumber, ScanSymbol, ScanString, ScanComment, ScanUnknown, Emits
<1>2. \E token : token.type # EOF /\ tokens' = Append(tokens, token)
  <2>1. CASE ScanWord
    <3> DEFINE end == After(Start, Letters \cup Digits \cup {"_"})
               word == SubSeq(content, Start, end - 1)
               type == IF word \in DOMAIN Keywords THEN Keywords[word] ELSE "IDENTIFIER"
    <3>1. Emits(From(type, word), end)
      BY <2>1 DEF ScanWord
    <3> HIDE DEF end, word
    <3>2. type # EOF
      BY KeywordsKnown DEF EOF
    <3> HIDE DEF type
    <3> QED
      BY <3>1, <3>2 DEF Emits, From, Token
  <2>2. CASE ScanNumber
    <3>1. \E value, end : Emits(From("NUM_LITERAL", value), end)
      BY <2>2 DEF ScanNumber
    <3> QED
      BY <3>1 DEF Emits, From, Token, EOF
  <2>3. CASE ScanSymbol
    <3>1. \E type, text, size, p : type # EOF /\ Emits(UpTo(p, type, text, size), p)
      BY <2>3, OneCharKnown, TwoCharKnown DEF ScanSymbol, EOF
    <3> QED
      BY <3>1 DEF Emits, UpTo, Token
  <2>4. CASE ScanString
    <3>1. \E type, text, size, p : type # EOF /\ Emits(UpTo(p, type, text, size), p)
      BY <2>4 DEF ScanString, EOF
    <3> QED
      BY <3>1 DEF Emits, UpTo, Token
  <2>5. CASE ScanComment
    BY <2>5 DEF ScanComment, Emits, UpTo, Token, EOF
  <2>6. CASE ScanUnknown
    BY <2>6 DEF ScanUnknown, Emits, From, Token, EOF
  <2> QED
    BY <2>1, <2>2, <2>3, <2>4, <2>5, <2>6
<1> QED
  BY <1>1, <1>2, Inside

\* The end, read behind the text.
LEMMA ScanAtEnd == ASSUME Inv, ScanEnd PROVE Inv'
<1> DEFINE token == From(EOF, "")
<1>1. /\ tokens' = Append(tokens, token) /\ lexed' = lexed /\ ~lexed
      /\ content' = content /\ at' = Start /\ ~valid_pos(Start)
  BY DEF ScanEnd, Emits, Scanning, EOF
<1>2. /\ IsSequence(tokens') /\ DOMAIN tokens' = 1 .. Len(tokens) + 1
      /\ Len(tokens) \in Nat /\ DOMAIN tokens = 1 .. Len(tokens)
      /\ Len(tokens') = Len(tokens) + 1
      /\ \A i \in 1 .. Len(tokens) : tokens'[i] = tokens[i]
  <2> HIDE DEF token
  <2> QED
    BY <1>1, Longer DEF Inv
<1>3. \A i \in 1 .. Len(tokens) : tokens[i].type # EOF
  BY <1>1, <1>2 DEF Inv, ScanEnd, Scanning, Marked
<1>4. ~valid_pos(at)'
  BY <1>1 DEF valid_pos
<1>5. Marked'
  BY <1>2, <1>3, <1>4 DEF Marked
<1> QED
  BY <1>1, <1>2, <1>5 DEF Inv, OneEnd

\* The tokens are handed over with a mark in the last place and in no other.
LEMMA DeliverOne == ASSUME Inv, Deliver PROVE Inv'
<1>1. IsSequence(tokens) /\ Marked /\ IsSequence(<<>>)
  <2>1. <<>> \in Seq({})
    OBVIOUS
  <2> QED
    BY <2>1 DEF Inv, Deliver, IsSequence
<1>2. CASE Carets # {}
  BY <1>1, <1>2 DEF Deliver, Inv, OneEnd
<1>3. CASE Carets = {} /\ tokens # <<>> /\ tokens[Len(tokens)].type = EOF
  <2>1. tokens' = tokens
    BY <1>3 DEF Deliver, EOF
  <2>2. Len(tokens) \in DOMAIN tokens
    BY <1>1, <1>3 DEF IsSequence
  <2> QED
    BY <1>1, <1>3, <2>1, <2>2 DEF Deliver, Inv, OneEnd, Marked, EOF
<1>4. CASE Carets = {} /\ ~(tokens # <<>> /\ tokens[Len(tokens)].type = EOF)
  <2>1. tokens' = Append(tokens, End) /\ End.type = EOF
    BY <1>4 DEF Deliver, End, Token, EOF
  <2>2. /\ IsSequence(tokens') /\ DOMAIN tokens' = 1 .. Len(tokens) + 1
        /\ Len(tokens) \in Nat /\ DOMAIN tokens = 1 .. Len(tokens)
        /\ Len(tokens') = Len(tokens) + 1 /\ tokens'[Len(tokens) + 1] = End
        /\ \A i \in 1 .. Len(tokens) : tokens'[i] = tokens[i]
    BY <1>1, <2>1, Longer
  <2>3. \A i \in 1 .. Len(tokens) : tokens[i].type # EOF
    <3>1. Len(tokens) > 0 => tokens # <<>>
      OBVIOUS
    <3> QED
      BY <1>1, <1>4, <2>2, <3>1 DEF Marked
  <2>4. {i \in DOMAIN tokens' : tokens'[i].type = EOF} = {Len(tokens')}
    BY <2>1, <2>2, <2>3
  <2> QED
    BY <2>2, <2>4 DEF Deliver, Inv, OneEnd, EOF
<1> QED
  BY <1>2, <1>3, <1>4

LEMMA StepInv == Inv /\ [LexNext]_lvars => Inv'
<1> SUFFICES ASSUME Inv, [LexNext]_lvars PROVE Inv'
  OBVIOUS
<1>1. CASE UNCHANGED lvars
  BY <1>1 DEF lvars, Inv, Marked, OneEnd, valid_pos
<1>2. ASSUME NEW text \in STRING, Tokenize(text) PROVE Inv'
  <2>1. <<>> \in Seq({}) /\ DOMAIN <<>> = {}
    OBVIOUS
  <2> QED
    BY <1>2, <2>1 DEF Tokenize, Inv, Marked, OneEnd, IsSequence
<1>3. CASE Scan
  BY <1>3, ScanInside, ScanAtEnd, DeliverOne DEF Scan
<1> QED
  BY <1>1, <1>2, <1>3 DEF LexNext

\* Whatever texts are read: the tokens of each of them end with one mark of
\* the end, and no other token is one.
THEOREM EndsOnce == LexSpec => []OneEnd
<1>1. LexInit => Inv
  <2>1. <<>> \in Seq({})
    OBVIOUS
  <2> QED
    BY <2>1 DEF LexInit, Inv, OneEnd, IsSequence
<1>2. Inv => OneEnd
  BY DEF Inv
<1> QED
  BY <1>1, <1>2, StepInv, PTL DEF LexSpec
=============================================================================
