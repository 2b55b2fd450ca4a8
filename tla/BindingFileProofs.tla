--------------------------- MODULE BindingFileProofs ---------------------------
(***************************************************************************)
(* The reading of a binding file, for files of any number and length that  *)
(* include one another in any way: the location of a token is where it     *)
(* stands, a statement keeps that location however far the lexer is        *)
(* ahead, and the AST made of the statements gives the code generator      *)
(* every method of a class.                                                *)
(***************************************************************************)
EXTENDS BindingFile, SequenceTheorems, NaturalsInduction, WellFoundedInduction,
        TLAPS

Place == [file : Files, line : Nat]
Buffer == [file : DOMAIN text, next : Nat \ {0}]
Kept == [filename : Files, start_line : Nat]
Item == [s : Ast!Statement, block : BOOLEAN, at : Place]

LexerTypes == /\ DOMAIN text \subseteq Files
              /\ \A f \in DOMAIN text : text[f] \in Seq(Line)
              /\ buffers \in Seq(Buffer) /\ buffers # <<>>
              /\ locations \in Seq(Kept)
              /\ tokens \in Seq(Place)

LexerInv == LexerTypes /\ LocationsFollowBuffers

-----------------------------------------------------------------------------
(* the statement at a place is known once it is read *)
Stands(w, s, at) == <<at.file, at.line>> \in DOMAIN w /\ w[<<at.file, at.line>>].s = s

PlacesInv ==
  /\ inparser \in Seq(Item) /\ located \in Seq(Place)
  /\ read \in Seq(Ast!Statement)
  /\ Len(located) = Len(read)
  /\ \A k \in 1 .. Len(read) : Stands(written, read[k], located[k])
  /\ \A k \in 1 .. Len(inparser) : Stands(written, inparser[k].s, inparser[k].at)
  /\ Len(tokens) = Len(located) + Len(inparser)
  /\ \A k \in 1 .. Len(located) : tokens[k] = located[k]
  /\ \A k \in 1 .. Len(inparser) : tokens[Len(located) + k] = inparser[k].at

-----------------------------------------------------------------------------
MethodRec == [type : Types \cup {"preface"}, ident : Idents \cup {""}, from : Nat]
Node == [kind : {"binding", "class"}, class : Classes \cup {""}, from : Nat,
         methods : Seq(MethodRec)]

(* what *genbind_ast reaches while statements are read *)
VisibleInv == /\ nodes \in Seq(Node)
              /\ visible \in 0 .. Len(nodes)
              /\ parse = "parse" => visible = IF Len(read) <= 1 THEN 0 ELSE Len(nodes)

(* no node without a statement of its class *)
NodesHaveText ==
  \A k \in 1 .. Len(nodes) : nodes[k].kind = "class" =>
    \E n \in 1 .. Len(read) :
      read[n].kind \in {"class", "method"} /\ read[n].class = nodes[k].class

(* no statement without a node *)
ClassesHaveNodes ==
  \A n \in 1 .. Len(read) : read[n].kind = "class" =>
    \E k \in 1 .. Len(nodes) : /\ nodes[k].kind = "class"
                               /\ nodes[k].class = read[n].class /\ nodes[k].from = n
MethodsHaveNodes ==
  \A n \in 1 .. Len(read) : read[n].kind = "method" =>
    \E k \in 1 .. Len(nodes) :
      /\ nodes[k].kind = "class" /\ nodes[k].class = read[n].class
      /\ \E j \in 1 .. Len(nodes[k].methods) : nodes[k].methods[j] = Ast!Method(read[n], n)

(* the methods of a node are in the order of the text *)
MethodsInOrder ==
  \A k \in 1 .. Len(nodes) : \A j \in 1 .. Len(nodes[k].methods) :
    /\ nodes[k].methods[j].from <= Len(read)
    /\ \A i \in 1 .. j : nodes[k].methods[i].from <= nodes[k].methods[j].from

ReachInv == NodesHaveText /\ ClassesHaveNodes /\ MethodsHaveNodes /\ MethodsInOrder

(* in a customary file a class has one node, and the first statement, which
   the search of the second does not see, makes none *)
CustomaryInv ==
  Ast!Customary =>
    /\ Len(read) <= 1 => \A k \in 1 .. Len(nodes) : nodes[k].kind = "binding"
    /\ \A k, m \in 1 .. Len(nodes) :
         nodes[k].kind = "class" /\ nodes[m].kind = "class"
           /\ nodes[k].class = nodes[m].class => k = m

AstInv == VisibleInv /\ ReachInv /\ CustomaryInv

FileInv == LexerInv /\ PlacesInv /\ AstInv

-----------------------------------------------------------------------------
(* LocationsFollowBuffers, of any two stacks *)
Mirrors(l, b, f, y) ==
  /\ Len(l) = Len(b) - 1
  /\ f = b[Len(b)].file /\ y = b[Len(b)].next
  /\ \A k \in 1 .. Len(l) : l[k] = [filename |-> b[Len(b) - k].file,
                                    start_line |-> b[Len(b) - k].next]

(* The stacks keep step when a file is entered, *)
LEMMA PushMirrors ==
  ASSUME NEW B, NEW b \in Seq(B), b # <<>>, NEW e \in B,
         NEW K, NEW l \in Seq(K), NEW f, NEW y, Mirrors(l, b, f, y),
         NEW c \in K, c = [filename |-> f, start_line |-> y]
  PROVE  Mirrors(<<c>> \o l, Append(b, e), e.file, e.next)
<1>1. PICK n \in Nat : n = Len(b) /\ n >= 1 /\ Len(l) = n - 1
  <2>1. Len(b) \in Nat /\ Len(b) # 0
    BY EmptySeq, LenProperties
  <2>2. QED
    BY <2>1 DEF Mirrors
<1>2. PICK t : t = Append(b, e)
  OBVIOUS
<1>3. Len(t) = n + 1 /\ t[n + 1] = e /\ \A k \in 1 .. n : t[k] = b[k]
  BY <1>1, <1>2, AppendProperties
<1>4. PICK d \in K : d = c
  OBVIOUS
<1>5. PICK q : q = <<d>>
  OBVIOUS
<1>6. q \in Seq(K) /\ Len(q) = 1 /\ q[1] = c
  BY ONLY <1>4, <1>5
<1>7. PICK m : m = q \o l
  OBVIOUS
<1>8. /\ Len(m) = n
      /\ \A k \in 1 .. n : m[k] = IF k <= 1 THEN q[k] ELSE l[k - 1]
  <2>1. /\ Len(q \o l) = Len(q) + Len(l)
        /\ \A k \in 1 .. Len(q) + Len(l) :
             (q \o l)[k] = IF k <= Len(q) THEN q[k] ELSE l[k - Len(q)]
    BY <1>6, ConcatProperties
  <2>2. QED
    BY ONLY <1>1, <1>6, <1>7, <2>1
<1>9. ASSUME NEW k \in 1 .. n
      PROVE  m[k] = [filename |-> t[n + 1 - k].file, start_line |-> t[n + 1 - k].next]
  <2>1. CASE k = 1
    BY <1>1, <1>3, <1>6, <1>8, <2>1 DEF Mirrors
  <2>2. CASE k # 1
    <3>1. k - 1 \in 1 .. n - 1 /\ n + 1 - k \in 1 .. n /\ n - (k - 1) = n + 1 - k
      BY <1>1, <2>2
    <3>2. m[k] = l[k - 1]
      BY <1>8, <2>2, <3>1
    <3>3. l[k - 1] = [filename |-> b[n + 1 - k].file, start_line |-> b[n + 1 - k].next]
      BY <1>1, <3>1 DEF Mirrors
    <3>4. QED
      BY <1>3, <3>1, <3>2, <3>3
  <2>3. QED
    BY <2>1, <2>2
<1>10. Mirrors(m, t, e.file, e.next)
  BY <1>1, <1>3, <1>8, <1>9 DEF Mirrors
<1>11. QED
  BY <1>2, <1>4, <1>5, <1>7, <1>10

(* when it is left, *)
LEMMA PopMirrors ==
  ASSUME NEW B, NEW b \in Seq(B), Len(b) > 1,
         NEW K, NEW l \in Seq(K), NEW f, NEW y, Mirrors(l, b, f, y)
  PROVE  /\ Front(b) \in Seq(B) /\ Front(b) # <<>> /\ Tail(l) \in Seq(K)
         /\ Mirrors(Tail(l), Front(b), Head(l).filename, Head(l).start_line)
<1>1. PICK n \in Nat : n = Len(b) /\ n >= 2 /\ Len(l) = n - 1
  BY LenProperties DEF Mirrors
<1>2. PICK t : t = Front(b)
  OBVIOUS
<1>3. t \in Seq(B) /\ Len(t) = n - 1 /\ \A k \in 1 .. n - 1 : t[k] = b[k]
  <2>1. \A k \in 1 .. n - 1 : b[k] \in B
    BY <1>1, ElementOfSeq
  <2>2. PICK m \in Int : m = n - 1
    BY <1>1
  <2>3. PICK u \in Int : u = 1
    OBVIOUS
  <2>4. \A k \in u .. m : b[k] \in B
    BY <2>1, <2>2, <2>3
  <2>5. /\ SubSeq(b, u, m) \in Seq(B)
        /\ Len(SubSeq(b, u, m)) = IF u <= m THEN m - u + 1 ELSE 0
        /\ \A k \in 1 .. m - u + 1 : SubSeq(b, u, m)[k] = b[u + k - 1]
    BY ONLY <2>4, SubSeqProperties
  <2>6. t = SubSeq(b, u, m)
    BY <1>1, <1>2, <2>2, <2>3 DEF Front
  <2>7. QED
    BY ONLY <1>1, <2>2, <2>3, <2>5, <2>6
<1>4. t # <<>>
  BY <1>1, <1>3, EmptySeq
<1>5. l # <<>>
  BY <1>1, EmptySeq
<1>6. PICK m : m = Tail(l)
  OBVIOUS
<1>7. m \in Seq(K) /\ Len(m) = n - 2 /\ \A k \in 1 .. n - 2 : m[k] = l[k + 1]
  BY <1>1, <1>5, <1>6, HeadTailProperties
<1>8. Head(l) = [filename |-> t[n - 1].file, start_line |-> t[n - 1].next]
  <2>1. Head(l) = l[1] /\ 1 \in 1 .. Len(l) /\ n - 1 \in 1 .. n - 1
    BY <1>1, <1>5
  <2>2. QED
    BY <1>1, <1>3, <2>1 DEF Mirrors
<1>9. ASSUME NEW k \in 1 .. n - 2
      PROVE  m[k] = [filename |-> t[n - 1 - k].file, start_line |-> t[n - 1 - k].next]
  <2>1. k + 1 \in 1 .. n - 1 /\ n - (k + 1) = n - 1 - k /\ n - 1 - k \in 1 .. n - 1
    BY <1>1
  <2>2. l[k + 1] = [filename |-> b[n - 1 - k].file, start_line |-> b[n - 1 - k].next]
    BY <1>1, <2>1 DEF Mirrors
  <2>3. QED
    BY <1>3, <1>7, <2>1, <2>2
<1>10. Mirrors(m, t, Head(l).filename, Head(l).start_line)
  BY <1>1, <1>3, <1>7, <1>8, <1>9 DEF Mirrors
<1>11. QED
  BY <1>2, <1>3, <1>4, <1>6, <1>7, <1>10

(* and when a line is. *)
LEMMA LineMirrors ==
  ASSUME NEW B, NEW b \in Seq(B), b # <<>>, NEW l, NEW f, NEW y, Mirrors(l, b, f, y),
         NEW e \in B, e.file = b[Len(b)].file, e.next = b[Len(b)].next + 1
  PROVE  /\ [b EXCEPT ![Len(b)] = e] \in Seq(B) /\ [b EXCEPT ![Len(b)] = e] # <<>>
         /\ Mirrors(l, [b EXCEPT ![Len(b)] = e], f, y + 1)
<1>1. PICK n \in Nat : n = Len(b) /\ n >= 1 /\ Len(l) = n - 1
  <2>1. Len(b) \in Nat /\ Len(b) # 0
    BY EmptySeq, LenProperties
  <2>2. QED
    BY <2>1 DEF Mirrors
<1>2. PICK t : t = [b EXCEPT ![n] = e]
  OBVIOUS
<1>3. t \in Seq(B) /\ Len(t) = n /\ \A k \in 1 .. n : t[k] = IF k = n THEN e ELSE b[k]
  BY <1>1, <1>2, ExceptSeq
<1>4. t # <<>>
  BY <1>1, <1>3, EmptySeq
<1>5. ASSUME NEW k \in 1 .. n - 1
      PROVE  n - k \in 1 .. n /\ t[n - k] = b[n - k]
  BY <1>1, <1>3
<1>6. Mirrors(l, t, f, y + 1)
  BY <1>1, <1>3, <1>5 DEF Mirrors
<1>7. QED
  BY <1>1, <1>2, <1>3, <1>4, <1>6

LEMMA FollowIsMirrors ==
  ASSUME LexerTypes
  PROVE  LocationsFollowBuffers <=> Mirrors(locations, buffers, filename, yylineno)
<1>1. DOMAIN locations = 1 .. Len(locations)
  BY LenProperties DEF LexerTypes
<1>2. QED
  BY <1>1 DEF LocationsFollowBuffers, Mirrors, Top, Last

(* What the lexer reads next is a line of a file that is there. *)
LEMMA HereIsLine ==
  ASSUME LexerTypes
  PROVE  /\ Len(buffers) \in 1 .. Len(buffers) /\ Top \in Buffer
         /\ Top = buffers[Len(buffers)]
         /\ ~AtEnd => Here \in Line
<1>1. Len(buffers) \in Nat /\ Len(buffers) # 0
  BY EmptySeq, LenProperties DEF LexerTypes
<1>2. Len(buffers) \in 1 .. Len(buffers)
  BY <1>1
<1>3. Top = buffers[Len(buffers)] /\ Top \in Buffer
  BY <1>2, ElementOfSeq DEF LexerTypes, Top, Last
<1>4. ASSUME ~AtEnd PROVE Here \in Line
  <2>1. PICK f \in DOMAIN text : f = Top.file
    BY <1>3 DEF Buffer
  <2>2. PICK n \in Nat \ {0} : n = Top.next
    BY <1>3 DEF Buffer
  <2>3. text[f] \in Seq(Line) /\ Len(text[f]) \in Nat
    BY LenProperties DEF LexerTypes
  <2>4. n \in 1 .. Len(text[f])
    BY <1>4, <2>1, <2>2, <2>3 DEF AtEnd
  <2>5. QED
    BY <2>1, <2>2, <2>3, <2>4, ElementOfSeq DEF Here
<1>5. QED
  BY <1>2, <1>3, <1>4

LEMMA LexerStartInv ==
  ASSUME DOMAIN text \subseteq Files, Root \in DOMAIN text,
         \A f \in DOMAIN text : text[f] \in Seq(Line), Start
  PROVE  LexerInv
<1>1. PICK e \in Buffer : e = [file |-> Root, next |-> 1]
  <2>1. [file |-> Root, next |-> 1] \in Buffer
    BY SMT DEF Buffer
  <2>2. QED
    BY <2>1
<1>2. buffers = <<e>>
  BY <1>1 DEF Start
<1>3. buffers \in Seq(Buffer) /\ Len(buffers) = 1 /\ buffers[1] = e
  BY ONLY <1>2
<1>4. locations \in Seq(Kept) /\ Len(locations) = 0 /\ tokens \in Seq(Place)
  BY EmptySeq DEF Start
<1>5. LexerTypes
  <2>1. <<e>> # <<>>
    OBVIOUS
  <2>2. buffers # <<>>
    BY ONLY <1>2, <2>1
  <2>3. QED
    BY <1>3, <1>4, <2>2, Zenon DEF LexerTypes
<1>6. filename = e.file /\ yylineno = e.next
  BY <1>1 DEF Start
<1>7. Mirrors(locations, buffers, filename, yylineno)
  BY <1>3, <1>4, <1>6 DEF Mirrors
<1>8. QED
  BY <1>5, <1>7, FollowIsMirrors DEF LexerInv

(* a line is left behind *)
LEMMA NextLineKeepsInv ==
  ASSUME LexerInv, NextLine, UNCHANGED <<text, locations, filename>>,
         tokens' \in Seq(Place)
  PROVE  LexerInv'
<1>1. LexerTypes /\ Mirrors(locations, buffers, filename, yylineno)
  BY FollowIsMirrors DEF LexerInv
<1>2. PICK e \in Buffer :
        e = [Top EXCEPT !.next = @ + 1] /\ e.file = Top.file /\ e.next = Top.next + 1
  <2>1. PICK b \in Buffer : b = Top
    BY <1>1, HereIsLine
  <2>2. PICK c : c = [b EXCEPT !.next = b.next + 1]
    OBVIOUS
  <2>3. c \in Buffer /\ c.file = b.file /\ c.next = b.next + 1
    BY <2>2 DEF Buffer
  <2>4. QED
    BY <2>1, <2>2, <2>3
<1>3. e.file = Top.file /\ e.next = Top.next + 1
  BY <1>2
<1>4. buffers' = [buffers EXCEPT ![Len(buffers)] = e] /\ yylineno' = yylineno + 1
  BY <1>1, <1>2, HereIsLine DEF NextLine
<1>5. buffers' \in Seq(Buffer) /\ buffers' # <<>> /\ Mirrors(locations, buffers', filename, yylineno')
  BY <1>1, <1>3, <1>4, HereIsLine, LineMirrors DEF LexerTypes
<1>6. LexerTypes'
  BY <1>1, <1>5 DEF LexerTypes, Buffer
<1>7. Mirrors(locations, buffers, filename, yylineno)'
  BY <1>5 DEF Mirrors
<1>8. LocationsFollowBuffers'
  BY <1>6, <1>7, FollowIsMirrors, PTL
<1>9. QED
  BY <1>6, <1>8 DEF LexerInv

LEMMA TokenKeepsInv ==
  ASSUME LexerInv, Token
  PROVE  /\ LexerInv'
         /\ \E t \in Place : /\ t = [file |-> Top.file, line |-> Top.next]
                             /\ tokens' = Append(tokens, t)
<1>1. LexerTypes /\ filename = Top.file /\ yylineno = Top.next
  BY DEF LexerInv, LocationsFollowBuffers
<1>2. PICK b \in Buffer : b = Top
  BY <1>1, HereIsLine
<1>3. b.file \in Files /\ b.next \in Nat
  BY <1>1 DEF Buffer, LexerTypes
<1>4. PICK t \in Place : t = [file |-> b.file, line |-> b.next]
  BY <1>3 DEF Place
<1>5. tokens' = Append(tokens, t)
  BY <1>1, <1>2, <1>4 DEF Token
<1>6. tokens' \in Seq(Place)
  BY <1>1, <1>5, AppendProperties DEF LexerTypes
<1>7. NextLine /\ UNCHANGED <<text, locations, filename>>
  BY DEF Token
<1>8. LexerInv'
  BY <1>6, <1>7, NextLineKeepsInv
<1>9. QED
  BY <1>2, <1>4, <1>5, <1>8

LEMMA IncludeKeepsInv ==
  ASSUME LexerInv, Include
  PROVE  LexerInv'
<1>1. LexerTypes /\ Mirrors(locations, buffers, filename, yylineno)
  BY FollowIsMirrors DEF LexerInv
<1>2. UNCHANGED <<text, tokens>> /\ ~Unopenable(Here.file)
  BY DEF Include
<1>3. PICK f \in DOMAIN text : f = Here.file
  BY <1>2 DEF Unopenable
<1>4. PICK e \in Buffer : e = [file |-> f, next |-> 1]
  <2>1. [file |-> f, next |-> 1] \in Buffer
    BY SMT DEF Buffer
  <2>2. QED
    BY <2>1
<1>5. e.file = f /\ e.next = 1
  BY <1>4
<1>6. PICK c \in Kept : c = [filename |-> filename, start_line |-> yylineno]
  <2>1. PICK b \in Buffer : b = buffers[Len(buffers)] /\ b = Top
    BY <1>1, HereIsLine
  <2>2. b.file \in Files /\ b.next \in Nat
    BY <1>1, <2>1 DEF Buffer, LexerTypes
  <2>3. filename = b.file /\ yylineno = b.next
    BY <1>1, <2>1 DEF Mirrors
  <2>4. QED
    BY <2>2, <2>3 DEF Kept
<1>7. buffers' = Append(buffers, e)
  BY <1>3, <1>4 DEF Include
<1>8. locations' = <<c>> \o locations /\ filename' = e.file /\ yylineno' = e.next
  BY <1>3, <1>5, <1>6 DEF Include, PushLocation
<1>9. buffers' \in Seq(Buffer) /\ buffers' # <<>>
  BY <1>1, <1>7, AppendProperties DEF LexerTypes
<1>10. locations' \in Seq(Kept)
  <2>1. PICK d \in Kept : d = c
    OBVIOUS
  <2>2. <<d>> \in Seq(Kept)
    OBVIOUS
  <2>3. locations \in Seq(Kept)
    BY <1>1 DEF LexerTypes
  <2>4. <<d>> \o locations \in Seq(Kept)
    BY ONLY <2>2, <2>3, ConcatProperties
  <2>5. QED
    BY <1>8, <2>1, <2>4
<1>11. Mirrors(locations', buffers', filename', yylineno')
  <2>1. Mirrors(<<c>> \o locations, Append(buffers, e), e.file, e.next)
    BY <1>1, <1>6, PushMirrors DEF LexerTypes
  <2>2. QED
    BY <1>7, <1>8, <2>1
<1>12. LexerTypes'
  BY <1>1, <1>2, <1>9, <1>10 DEF LexerTypes, Buffer
<1>13. Mirrors(locations, buffers, filename, yylineno)'
  BY <1>11 DEF Mirrors
<1>14. LocationsFollowBuffers'
  BY <1>12, <1>13, FollowIsMirrors, PTL
<1>15. QED
  BY <1>12, <1>14 DEF LexerInv

LEMMA EndOfIncludeKeepsInv ==
  ASSUME LexerInv, EndOfInclude
  PROVE  LexerInv'
<1>1. LexerTypes /\ Mirrors(locations, buffers, filename, yylineno)
  BY FollowIsMirrors DEF LexerInv
<1>2. /\ UNCHANGED <<text, tokens>> /\ Len(buffers) > 1
      /\ buffers' = Front(buffers) /\ locations' = Tail(locations)
      /\ filename' = Head(locations).filename /\ yylineno' = Head(locations).start_line
  BY DEF EndOfInclude, PopLocation
<1>3. /\ buffers' \in Seq(Buffer) /\ buffers' # <<>> /\ locations' \in Seq(Kept)
      /\ Mirrors(locations', buffers', filename', yylineno')
  BY <1>1, <1>2, PopMirrors DEF LexerTypes
<1>4. LexerTypes'
  BY <1>1, <1>2, <1>3 DEF LexerTypes, Buffer
<1>5. Mirrors(locations, buffers, filename, yylineno)'
  BY <1>3 DEF Mirrors
<1>6. LocationsFollowBuffers'
  BY <1>4, <1>5, FollowIsMirrors, PTL
<1>7. QED
  BY <1>4, <1>6 DEF LexerInv

LEMMA SameLexerKeepsInv ==
  ASSUME LexerInv, UNCHANGED <<text, buffers, locations, filename, yylineno, tokens>>
  PROVE  LexerInv'
BY DEF LexerInv, LexerTypes, Buffer, LocationsFollowBuffers, Top

LEMMA DirectiveKeepsInv ==
  ASSUME LexerInv, Directive
  PROVE  LexerInv' /\ UNCHANGED tokens
<1>1. CASE Include
  BY <1>1, IncludeKeepsInv DEF Include
<1>2. CASE IncludeFails
  BY <1>2, SameLexerKeepsInv DEF IncludeFails
<1>3. CASE RestOfLine
  <2>1. NextLine /\ UNCHANGED <<text, locations, filename, tokens>> /\ tokens \in Seq(Place)
    BY <1>3 DEF RestOfLine, LexerInv, LexerTypes
  <2>2. QED
    BY <2>1, NextLineKeepsInv
<1>4. CASE TrailingText
  BY <1>4, SameLexerKeepsInv DEF TrailingText
<1>5. CASE EndOfInclude
  BY <1>5, EndOfIncludeKeepsInv DEF EndOfInclude
<1>6. CASE EndOfFile
  BY <1>6, SameLexerKeepsInv DEF EndOfFile
<1>7. QED
  BY <1>1, <1>2, <1>3, <1>4, <1>5, <1>6 DEF Directive

-----------------------------------------------------------------------------
LEMMA PlacesStart ==
  ASSUME FileStart
  PROVE  PlacesInv
<1>1. /\ inparser = <<>> /\ located = <<>> /\ read = <<>> /\ tokens = <<>>
  BY DEF FileStart, Start, Ast!Init
<1>2. Len(<<>>) = 0
  OBVIOUS
<1>3. inparser \in Seq(Item) /\ located \in Seq(Place) /\ read \in Seq(Ast!Statement)
  BY <1>1
<1>4. QED
  BY <1>1, <1>2, <1>3 DEF PlacesInv

(* The statement is known, and the token is the last one, at its place. *)
LEMMA ShiftFacts ==
  ASSUME LexerInv, NEW s \in Ast!Statement, NEW block \in BOOLEAN, Shift(s, block)
  PROVE  \E t \in Place :
           /\ tokens' = Append(tokens, t)
           /\ inparser' = Append(inparser, [s |-> s, block |-> block, at |-> t])
           /\ Stands(written', s, t)
           /\ \A r, at : Stands(written, r, at) => Stands(written', r, at)
<1>1. Token
  BY DEF Shift
<1>2. PICK t \in Place : t = [file |-> Top.file, line |-> Top.next] /\ tokens' = Append(tokens, t)
  BY <1>1, TokenKeepsInv
<1>3. Last(tokens') = t
  <2>1. PICK q \in Seq(Place) : q = tokens
    BY DEF LexerInv, LexerTypes
  <2>2. Len(Append(q, t)) = Len(q) + 1 /\ Append(q, t)[Len(q) + 1] = t
    BY ONLY AppendProperties
  <2>3. Append(q, t)[Len(Append(q, t))] = t
    BY ONLY <2>2
  <2>4. QED
    BY <1>2, <2>1, <2>3 DEF Last
<1>4. inparser' = Append(inparser, [s |-> s, block |-> block, at |-> t])
  BY <1>3 DEF Shift
<1>5. PICK here : here = <<t.file, t.line>> /\ here = <<Top.file, Top.next>>
  BY <1>2 DEF Place
<1>6. \/ here \in DOMAIN written /\ s = written[here].s /\ written' = written
      \/ /\ here \notin DOMAIN written
         /\ written' = [h \in DOMAIN written \cup {here} |->
                          IF h = here THEN [s |-> s, block |-> block] ELSE written[h]]
  BY <1>5 DEF Shift
<1>7. CASE here \in DOMAIN written /\ s = written[here].s /\ written' = written
  <2>1. Stands(written', s, t) /\ \A r, at : Stands(written, r, at) => Stands(written', r, at)
    BY <1>5, <1>7 DEF Stands
  <2>2. QED
    BY <1>2, <1>4, <2>1
<1>8. CASE /\ here \notin DOMAIN written
           /\ written' = [h \in DOMAIN written \cup {here} |->
                            IF h = here THEN [s |-> s, block |-> block] ELSE written[h]]
  <2>1. written'[here].s = s /\ here \in DOMAIN written'
    BY <1>8
  <2>2. \A h \in DOMAIN written : h \in DOMAIN written' /\ written'[h] = written[h]
    BY <1>8
  <2>3. Stands(written', s, t) /\ \A r, at : Stands(written, r, at) => Stands(written', r, at)
    BY <1>5, <2>1, <2>2 DEF Stands
  <2>4. QED
    BY <1>2, <1>4, <2>3
<1>9. QED
  BY <1>6, <1>7, <1>8

LEMMA ShiftKeepsPlaces ==
  ASSUME LexerInv, PlacesInv,
         NEW s \in Ast!Statement, NEW block \in BOOLEAN, Shift(s, block)
  PROVE  PlacesInv'
<1>1. PICK t \in Place :
           /\ tokens' = Append(tokens, t)
           /\ inparser' = Append(inparser, [s |-> s, block |-> block, at |-> t])
           /\ Stands(written', s, t)
           /\ \A r, at : Stands(written, r, at) => Stands(written', r, at)
  BY ShiftFacts
<1>2. UNCHANGED <<located, read>>
  BY DEF Shift, astvars
<1>3. PICK item \in Item : item = [s |-> s, block |-> block, at |-> t]
  BY DEF Item
<1>4. item.s = s /\ item.at = t
  BY <1>3
<1>5. PICK n \in Nat, l \in Nat : n = Len(inparser) /\ l = Len(located) /\ Len(tokens) = l + n
  BY LenProperties DEF PlacesInv
<1>6. /\ inparser' \in Seq(Item) /\ Len(inparser') = n + 1 /\ inparser'[n + 1] = item
      /\ \A k \in 1 .. n : inparser'[k] = inparser[k]
  BY <1>1, <1>3, <1>5, AppendProperties DEF PlacesInv
<1>7. /\ Len(tokens') = l + n + 1 /\ tokens'[l + n + 1] = t
      /\ \A k \in 1 .. l + n : tokens'[k] = tokens[k]
  BY <1>1, <1>5, AppendProperties DEF LexerInv, LexerTypes
<1>8. \A k \in 1 .. n + 1 : k \in 1 .. n \/ k = n + 1
  BY <1>5
<1>9. \A k \in 1 .. n + 1 : Stands(written', inparser'[k].s, inparser'[k].at)
  BY <1>1, <1>4, <1>5, <1>6, <1>8 DEF PlacesInv
<1>10. ASSUME NEW k \in 1 .. n + 1
       PROVE  tokens'[l + k] = inparser'[k].at
  <2>1. CASE k \in 1 .. n
    <3>1. l + k \in 1 .. l + n
      BY <1>5, <2>1
    <3>2. QED
      BY <1>5, <1>6, <1>7, <2>1, <3>1 DEF PlacesInv
  <2>2. CASE k = n + 1
    BY <1>4, <1>5, <1>6, <1>7, <2>2
  <2>3. QED
    BY <1>8, <2>1, <2>2
<1>11. \A k \in 1 .. l : tokens'[k] = located[k]
  <2>1. \A k \in 1 .. l : k \in 1 .. l + n
    BY <1>5
  <2>2. QED
    BY <1>5, <1>7, <2>1 DEF PlacesInv
<1>12. Len(read) = l /\ \A k \in 1 .. l : Stands(written', read[k], located[k])
  BY <1>1, <1>5 DEF PlacesInv
<1>13. Len(tokens') = Len(located) + Len(inparser')
  BY <1>5, <1>6, <1>7
<1>14. located \in Seq(Place) /\ read \in Seq(Ast!Statement)
  BY DEF PlacesInv
<1>15. QED
  BY ONLY <1>2, <1>5, <1>6, <1>9, <1>10, <1>11, <1>12, <1>13, <1>14 DEF PlacesInv

(* What is reduced is the statement shifted first. *)
LEMMA ReduceFacts ==
  ASSUME PlacesInv, Reduce
  PROVE  \E item \in Item : /\ item = inparser[1] /\ inparser # <<>>
                            /\ read' = Append(read, item.s)
                            /\ located' = Append(located, item.at)
                            /\ inparser' = Tail(inparser)
                            /\ UNCHANGED <<tokens, written>>
<1>1. inparser # <<>> /\ inparser \in Seq(Item)
  BY DEF Reduce, PlacesInv
<1>2. PICK item \in Item : item = Head(inparser) /\ item = inparser[1]
  BY <1>1, HeadTailProperties
<1>3. \/ Ast!BindingStatement(item.s) \/ Ast!ClassStatement(item.s)
      \/ Ast!ManufactureClass(item.s) \/ Ast!UpdateClass(item.s)
  BY <1>2 DEF Reduce
<1>4. Ast!Read(item.s)
  BY <1>3 DEF Ast!BindingStatement, Ast!ClassStatement, Ast!ManufactureClass, Ast!UpdateClass
<1>5. read' = Append(read, item.s)
  BY <1>4 DEF Ast!Read
<1>6. QED
  BY <1>1, <1>2, <1>5 DEF Reduce, Location, vars

LEMMA ReduceKeepsPlaces ==
  ASSUME PlacesInv, Reduce
  PROVE  PlacesInv'
<1>1. PICK item \in Item : /\ item = inparser[1] /\ inparser # <<>>
                           /\ read' = Append(read, item.s)
                           /\ located' = Append(located, item.at)
                           /\ inparser' = Tail(inparser)
                           /\ UNCHANGED <<tokens, written>>
  BY ReduceFacts
<1>2. item.s \in Ast!Statement /\ item.at \in Place
  BY DEF Item
<1>3. PICK n \in Nat, l \in Nat :
        /\ n = Len(inparser) /\ n >= 1 /\ l = Len(located) /\ l = Len(read)
        /\ Len(tokens) = l + n
  <2>1. Len(inparser) # 0
    BY <1>1, EmptySeq DEF PlacesInv
  <2>2. /\ Len(inparser) \in Nat /\ Len(located) \in Nat
        /\ Len(located) = Len(read) /\ Len(tokens) = Len(located) + Len(inparser)
    BY LenProperties DEF PlacesInv
  <2>3. Len(inparser) >= 1
    BY <2>1, <2>2
  <2>4. QED
    BY <2>2, <2>3
<1>4. /\ inparser' \in Seq(Item) /\ Len(inparser') = n - 1
      /\ \A k \in 1 .. n - 1 : inparser'[k] = inparser[k + 1]
  BY <1>1, <1>3, HeadTailProperties DEF PlacesInv
<1>5. /\ read' \in Seq(Ast!Statement) /\ Len(read') = l + 1 /\ read'[l + 1] = item.s
      /\ \A k \in 1 .. l : read'[k] = read[k]
  BY <1>1, <1>2, <1>3, AppendProperties DEF PlacesInv
<1>6. /\ located' \in Seq(Place) /\ Len(located') = l + 1 /\ located'[l + 1] = item.at
      /\ \A k \in 1 .. l : located'[k] = located[k]
  BY <1>1, <1>2, <1>3, AppendProperties DEF PlacesInv
<1>7. 1 \in 1 .. n /\ \A k \in 1 .. l + 1 : k \in 1 .. l \/ k = l + 1
  BY <1>3
<1>8. written' = written
  BY <1>1
<1>9. \A k \in 1 .. l + 1 : Stands(written, read'[k], located'[k])
  BY <1>1, <1>3, <1>5, <1>6, <1>7 DEF PlacesInv
<1>10. \A k \in 1 .. n - 1 : k + 1 \in 1 .. n
  BY <1>3
<1>11. \A k \in 1 .. n - 1 : Stands(written, inparser'[k].s, inparser'[k].at)
  BY <1>3, <1>4, <1>10 DEF PlacesInv
<1>12. \A k \in 1 .. l + 1 : tokens[k] = located'[k]
  BY <1>1, <1>3, <1>6, <1>7 DEF PlacesInv
<1>13. ASSUME NEW k \in 1 .. n - 1
       PROVE  tokens[l + 1 + k] = inparser'[k].at
  <2>1. l + (k + 1) = l + 1 + k
    BY <1>3
  <2>2. tokens[l + (k + 1)] = inparser[k + 1].at
    BY <1>3, <1>10 DEF PlacesInv
  <2>3. QED
    BY <1>4, <2>1, <2>2
<1>14. l + n = (l + 1) + (n - 1)
  BY <1>3
<1>15. Len(tokens') = Len(located') + Len(inparser') /\ tokens' = tokens
  BY <1>1, <1>3, <1>4, <1>6, <1>14
<1>16. QED
  BY ONLY <1>4, <1>5, <1>6, <1>8, <1>9, <1>11, <1>12, <1>13, <1>15 DEF PlacesInv

LEMMA SamePlacesInv ==
  ASSUME PlacesInv, UNCHANGED <<tokens, written, inparser, read, located>>
  PROVE  PlacesInv'
BY DEF PlacesInv, Stands

-----------------------------------------------------------------------------
(* Searches end at the first and at the last of what they look for. *)
LEMMA LeastExists ==
  ASSUME NEW T \in SUBSET Nat, T # {}
  PROVE  \E x \in T : \A y \in T : x <= y
<1>1. PICK x \in T : \A y \in T : ~ (<<y, x>> \in OpToRel(<, Nat))
  BY NatLessThanWellFounded, WFMin, Zenon
<1>2. \A y \in T : ~ (y < x)
  BY <1>1, Zenon DEF OpToRel
<1>3. QED
  BY <1>2

LEMMA GreatestExists ==
  ASSUME NEW n \in Nat, NEW T \in SUBSET (1 .. n), T # {}
  PROVE  \E x \in T : \A y \in T : y <= x
<1> DEFINE D == {n - y : y \in T}
<1>1. D \in SUBSET Nat /\ D # {}
  <2>1. \A y \in T : y \in 1 .. n
    OBVIOUS
  <2>2. \A y \in T : n - y \in Nat
    BY <2>1
  <2>3. QED
    BY <2>2
<1>2. PICK d \in D : \A e \in D : d <= e
  BY <1>1, LeastExists
<1>3. PICK x \in T : d = n - x
  OBVIOUS
<1>4. \A y \in T : d <= n - y
  BY <1>2
<1>5. QED
  BY <1>3, <1>4

(* The search of add_method finds a node if there is one. *)
LEMMA FoundFacts ==
  ASSUME NEW c, NEW n \in 0 .. Len(nodes), Len(nodes) \in Nat, Ast!ClassNodes(c, n) # {}
  PROVE  /\ Ast!Found(c, n) \in 1 .. n
         /\ nodes[Ast!Found(c, n)].kind = "class" /\ nodes[Ast!Found(c, n)].class = c
<1> DEFINE T == Ast!ClassNodes(c, n)
<1>1. n \in Nat /\ T \in SUBSET (1 .. n)
  BY DEF Ast!ClassNodes
<1>2. \E x \in T : \A y \in T : y <= x
  BY <1>1, GreatestExists
<1>3. Ast!Found(c, n) \in T
  BY <1>2 DEF Ast!Found
<1>4. QED
  BY <1>3 DEF Ast!ClassNodes

(* What a statement carries. *)
LEMMA StatementFacts ==
  ASSUME NEW s \in Ast!Statement
  PROVE  /\ s.kind \in {"binding", "class", "method"}
         /\ s.kind \in {"class", "method"} => s.class \in Classes
         /\ s.kind \in {"binding", "class"} => s.body \in Ast!Bodies
         /\ s.kind = "method" => s.type \in Types /\ s.ident \in Idents
<1>1. \/ s \in [kind : {"binding"}, body : Ast!Bodies]
      \/ s \in [kind : {"class"}, class : Classes, body : Ast!Bodies]
      \/ s \in [kind : {"method"}, class : Classes, type : Types, ident : Idents]
  BY DEF Ast!Statement
<1>2. CASE s \in [kind : {"binding"}, body : Ast!Bodies]
  BY <1>2
<1>3. CASE s \in [kind : {"class"}, class : Classes, body : Ast!Bodies]
  BY <1>3
<1>4. CASE s \in [kind : {"method"}, class : Classes, type : Types, ident : Idents]
  BY <1>4
<1>5. QED
  BY <1>1, <1>2, <1>3, <1>4

(* The cdata blocks of a body are methods of its statement. *)
LEMMA BodyFacts ==
  ASSUME NEW s, s.body \in Ast!Bodies, NEW n \in Nat
  PROVE  /\ Ast!Body(s, n) \in Seq(MethodRec)
         /\ \A j \in 1 .. Len(Ast!Body(s, n)) : Ast!Body(s, n)[j].from = n
<1>1. PICK b : b = s.body
  OBVIOUS
<1>2. b = <<>> \/ b = <<"preface", "preface">>
  BY <1>1 DEF Ast!Bodies
<1>3. PICK q \in {0, 2} : DOMAIN b = 1 .. q /\ \A m \in 1 .. q : b[m] = "preface"
  BY <1>2
<1>4. PICK r \in MethodRec : r = [type |-> "preface", ident |-> "", from |-> n]
  <2>1. [type |-> "preface", ident |-> "", from |-> n] \in MethodRec
    BY SMT DEF MethodRec
  <2>2. QED
    BY <2>1
<1>5. r.from = n
  BY <1>4
<1>6. Ast!Body(s, n) = [m \in 1 .. q |-> r]
  BY <1>1, <1>3, <1>4 DEF Ast!Body
<1>7. PICK t : t = [m \in 1 .. q |-> r]
  OBVIOUS
<1>8. q \in Nat /\ t \in [1 .. q -> MethodRec] /\ \A j \in 1 .. q : t[j] = r
  BY <1>7
<1>9. t \in Seq(MethodRec) /\ Len(t) = q
  BY <1>8
<1>10. QED
  BY <1>5, <1>6, <1>7, <1>8, <1>9

-----------------------------------------------------------------------------
(* A file that is customary was so before its last statement. *)
LEMMA CustomaryBefore ==
  ASSUME read \in Seq(Ast!Statement), NEW s \in Ast!Statement, read' = Append(read, s),
         Ast!Customary'
  PROVE  /\ Ast!Customary
         /\ read = <<>> => s.kind = "binding"
         /\ s.kind = "class" =>
              \A n \in 1 .. Len(read) :
                read[n].kind \in {"class", "method"} => read[n].class # s.class
<1>1. PICK l \in Nat : l = Len(read)
  BY LenProperties
<1>2. /\ Len(read') = l + 1 /\ read'[l + 1] = s /\ read' # <<>>
      /\ \A n \in 1 .. l : read'[n] = read[n]
  BY <1>1, AppendProperties
<1>3. \A n \in 1 .. l : n \in 1 .. l + 1 /\ n < l + 1 /\ ~ (l + 1 < n) /\ n # l + 1
  BY <1>1
<1>4. ASSUME NEW name \in Classes
      PROVE  /\ Ast!Declarations(name) \subseteq Ast!Declarations(name)'
             /\ Ast!Statements(name) \subseteq Ast!Statements(name)'
  BY <1>1, <1>2, <1>3 DEF Ast!Declarations, Ast!Statements
<1>5. /\ read'[1].kind = "binding"
      /\ \A name \in Classes :
           /\ \A k, m \in Ast!Declarations(name)' : k = m
           /\ \A k \in Ast!Declarations(name)' : \A m \in Ast!Statements(name)' : k < m
  BY <1>2 DEF Ast!Customary
<1>6. Ast!Customary
  <2>1. read # <<>> => read[1].kind = "binding"
    <3>1. SUFFICES ASSUME read # <<>> PROVE read[1].kind = "binding"
      OBVIOUS
    <3>2. 1 \in 1 .. l
      BY <1>1, <3>1, EmptySeq
    <3>3. QED
      BY <1>2, <1>5, <3>2
  <2>2. QED
    BY <1>4, <1>5, <2>1 DEF Ast!Customary
<1>7. ASSUME read = <<>> PROVE s.kind = "binding"
  <2>1. l = 0
    BY <1>1, <1>7
  <2>2. QED
    BY <1>2, <1>5, <2>1
<1>8. ASSUME s.kind = "class", NEW n \in 1 .. Len(read), read[n].kind \in {"class", "method"}
      PROVE  read[n].class # s.class
  <2>1. SUFFICES ASSUME read[n].class = s.class PROVE FALSE
    OBVIOUS
  <2>2. s.class \in Classes
    BY <1>8, StatementFacts
  <2>3. l + 1 \in 1 .. l + 1 /\ n \in 1 .. l /\ read'[n] = read[n]
    BY <1>1, <1>2
  <2>4. l + 1 \in Ast!Declarations(s.class)'
    BY <1>2, <1>8, <2>3 DEF Ast!Declarations
  <2>5. CASE read[n].kind = "class"
    <3>1. n \in Ast!Declarations(s.class)'
      BY <1>2, <1>3, <2>1, <2>3, <2>5 DEF Ast!Declarations
    <3>2. QED
      BY <1>3, <1>5, <2>2, <2>3, <2>4, <3>1
  <2>6. CASE read[n].kind = "method"
    <3>1. n \in Ast!Statements(s.class)'
      BY <1>2, <1>3, <2>1, <2>3, <2>6 DEF Ast!Statements
    <3>2. QED
      BY <1>3, <1>5, <2>2, <2>3, <2>4, <3>1
  <2>7. QED
    BY <1>8, <2>5, <2>6
<1>9. QED
  BY <1>6, <1>7, <1>8

(* A statement that brings a node of its own. *)
LEMMA NodeAdded ==
  ASSUME AstInv, read \in Seq(Ast!Statement), NEW s \in Ast!Statement, Ast!Read(s),
         NEW d \in Node, nodes' = Append(nodes, d),
         s.kind = "binding" => d.kind = "binding",
         d.kind = "class" => s.kind \in {"class", "method"} /\ d.class = s.class,
         s.kind = "class" => d.kind = "class" /\ d.class = s.class /\ d.from = Len(read) + 1,
         s.kind = "method" =>
           /\ d.kind = "class" /\ d.class = s.class
           /\ \E j \in 1 .. Len(d.methods) : d.methods[j] = Ast!Method(s, Len(read) + 1),
         \A j \in 1 .. Len(d.methods) : d.methods[j].from = Len(read) + 1,
         s.kind = "method" => Ast!ClassNodes(s.class, visible) = {}
  PROVE  AstInv'
<1>1. PICK l \in Nat : l = Len(read)
  BY LenProperties
<1>2. /\ nodes \in Seq(Node) /\ visible \in 0 .. Len(nodes)
      /\ visible = IF l <= 1 THEN 0 ELSE Len(nodes)
  BY <1>1 DEF AstInv, VisibleInv, Ast!Read
<1>3. PICK q \in Nat : q = Len(nodes)
  BY <1>2, LenProperties
<1>4. /\ nodes' \in Seq(Node) /\ Len(nodes') = q + 1 /\ nodes'[q + 1] = d
      /\ \A k \in 1 .. q : nodes'[k] = nodes[k]
  BY <1>2, <1>3, AppendProperties
<1>5. /\ read' = Append(read, s) /\ visible' = IF read = <<>> THEN 0 ELSE q + 1
      /\ parse' = parse
  BY <1>4 DEF Ast!Read
<1>6. /\ Len(read') = l + 1 /\ read'[l + 1] = s
      /\ \A n \in 1 .. l : read'[n] = read[n]
  BY <1>1, <1>5, AppendProperties
<1>7. /\ \A n \in 1 .. l + 1 : n = l + 1 \/ n \in 1 .. l
      /\ \A k \in 1 .. q + 1 : k = q + 1 \/ k \in 1 .. q
      /\ l + 1 \in 1 .. l + 1 /\ q + 1 \in 1 .. q + 1
      /\ \A n \in 1 .. l : n \in 1 .. l + 1
      /\ \A k \in 1 .. q : k \in 1 .. q + 1
  <2>1. l \in Nat /\ q \in Nat
    OBVIOUS
  <2>2. QED
    BY ONLY <2>1
<1>8. VisibleInv'
  <2>1. read = <<>> <=> l + 1 <= 1
    BY <1>1, EmptySeq
  <2>2. visible' \in 0 .. q + 1
    BY <1>3, <1>5
  <2>3. QED
    BY <1>4, <1>5, <1>6, <2>1, <2>2 DEF VisibleInv
<1>9. ReachInv'
  <2>1. ReachInv
    BY DEF AstInv
  <2>2. ASSUME NEW k \in 1 .. q + 1, nodes'[k].kind = "class"
        PROVE  \E n \in 1 .. l + 1 :
                 read'[n].kind \in {"class", "method"} /\ read'[n].class = nodes'[k].class
    <3>1. CASE k = q + 1
      BY <1>4, <1>6, <1>7, <2>2, <3>1
    <3>2. CASE k \in 1 .. q
      <4>1. PICK n \in 1 .. l :
              read[n].kind \in {"class", "method"} /\ read[n].class = nodes[k].class
        BY <1>1, <1>3, <1>4, <2>1, <2>2, <3>2 DEF ReachInv, NodesHaveText
      <4>2. QED
        BY <1>4, <1>6, <1>7, <3>2, <4>1
    <3>3. QED
      BY <1>7, <3>1, <3>2
  <2>3. ASSUME NEW n \in 1 .. l + 1, read'[n].kind = "class"
        PROVE  \E k \in 1 .. q + 1 : /\ nodes'[k].kind = "class"
                                     /\ nodes'[k].class = read'[n].class /\ nodes'[k].from = n
    <3>1. CASE n = l + 1
      BY <1>1, <1>4, <1>6, <1>7, <2>3, <3>1
    <3>2. CASE n \in 1 .. l
      <4>1. PICK k \in 1 .. q : /\ nodes[k].kind = "class"
                                /\ nodes[k].class = read[n].class /\ nodes[k].from = n
        BY <1>1, <1>3, <1>6, <2>1, <2>3, <3>2 DEF ReachInv, ClassesHaveNodes
      <4>2. QED
        BY <1>4, <1>6, <1>7, <3>2, <4>1
    <3>3. QED
      BY <1>7, <3>1, <3>2
  <2>4. ASSUME NEW n \in 1 .. l + 1, read'[n].kind = "method"
        PROVE  \E k \in 1 .. q + 1 :
                 /\ nodes'[k].kind = "class" /\ nodes'[k].class = read'[n].class
                 /\ \E j \in 1 .. Len(nodes'[k].methods) :
                      nodes'[k].methods[j] = Ast!Method(read'[n], n)
    <3>1. CASE n = l + 1
      <4>1. s.kind = "method" /\ nodes'[q + 1] = d /\ read'[n] = s /\ q + 1 \in 1 .. q + 1
        BY <1>4, <1>6, <1>7, <2>4, <3>1
      <4>2. d.kind = "class" /\ d.class = s.class
        BY <4>1
      <4>3. PICK j \in 1 .. Len(d.methods) : d.methods[j] = Ast!Method(s, n)
        BY <1>1, <3>1, <4>1
      <4>4. QED
        BY ONLY <4>1, <4>2, <4>3
    <3>2. CASE n \in 1 .. l
      <4>1. PICK k \in 1 .. q :
              /\ nodes[k].kind = "class" /\ nodes[k].class = read[n].class
              /\ \E j \in 1 .. Len(nodes[k].methods) : nodes[k].methods[j] = Ast!Method(read[n], n)
        BY <1>1, <1>3, <1>6, <2>1, <2>4, <3>2 DEF ReachInv, MethodsHaveNodes
      <4>2. nodes'[k] = nodes[k] /\ read'[n] = read[n] /\ k \in 1 .. q + 1
        BY <1>4, <1>6, <1>7, <3>2
      <4>3. /\ nodes'[k].kind = "class" /\ nodes'[k].class = read'[n].class
            /\ \E j \in 1 .. Len(nodes'[k].methods) :
                 nodes'[k].methods[j] = Ast!Method(read'[n], n)
        BY ONLY <4>1, <4>2 DEF Ast!Method
      <4>4. QED
        BY <4>2, <4>3
    <3>3. QED
      BY <1>7, <3>1, <3>2
  <2>5. ASSUME NEW k \in 1 .. q + 1, NEW j \in 1 .. Len(nodes'[k].methods)
        PROVE  /\ nodes'[k].methods[j].from <= l + 1
               /\ \A i \in 1 .. j : nodes'[k].methods[i].from <= nodes'[k].methods[j].from
    <3>1. CASE k = q + 1
      <4>1. PICK p \in Seq(MethodRec) : p = d.methods
        BY DEF Node
      <4>2. Len(p) \in Nat /\ j \in 1 .. Len(p) /\ nodes'[k].methods = p
        BY <1>4, <3>1, <4>1, LenProperties
      <4>3. \A i \in 1 .. j : i \in 1 .. Len(p)
        BY <4>2
      <4>4. \A i \in 1 .. Len(p) : p[i].from = l + 1
        BY <1>1, <4>1
      <4>5. l + 1 <= l + 1
        BY <1>1
      <4>6. QED
        BY <4>2, <4>3, <4>4, <4>5
    <3>2. CASE k \in 1 .. q
      <4>1. /\ nodes[k].methods[j].from <= l
            /\ \A i \in 1 .. j : nodes[k].methods[i].from <= nodes[k].methods[j].from
        BY <1>1, <1>3, <1>4, <2>1, <3>2 DEF ReachInv, MethodsInOrder
      <4>2. nodes[k].methods[j] \in MethodRec
        <5>1. nodes[k] \in Node
          BY <1>2, <1>3, <3>2, ElementOfSeq
        <5>2. nodes[k].methods \in Seq(MethodRec) /\ j \in 1 .. Len(nodes[k].methods)
          BY <1>4, <3>2, <5>1 DEF Node
        <5>3. QED
          BY <5>2, ElementOfSeq
      <4>3. nodes[k].methods[j].from \in Nat
        BY <4>2 DEF MethodRec
      <4>4. nodes[k].methods[j].from <= l + 1
        BY <1>1, <4>1, <4>3
      <4>5. QED
        BY <1>4, <3>2, <4>1, <4>4
    <3>3. QED
      BY <1>7, <3>1, <3>2
  <2>6. QED
    <3>1. Len(nodes') = q + 1 /\ Len(read') = l + 1
      BY <1>4, <1>6
    <3>2. NodesHaveText'
      BY ONLY <3>1, <2>2 DEF NodesHaveText
    <3>3. ClassesHaveNodes'
      BY ONLY <3>1, <2>3 DEF ClassesHaveNodes
    <3>4. MethodsHaveNodes'
      BY ONLY <3>1, <2>4 DEF MethodsHaveNodes
    <3>5. MethodsInOrder'
      BY ONLY <3>1, <2>5 DEF MethodsInOrder
    <3>6. QED
      BY ONLY <3>2, <3>3, <3>4, <3>5 DEF ReachInv
<1>10. CustomaryInv'
  <2>1. SUFFICES ASSUME Ast!Customary'
                 PROVE  /\ l + 1 <= 1 => \A k \in 1 .. q + 1 : nodes'[k].kind = "binding"
                        /\ \A k, m \in 1 .. q + 1 :
                             nodes'[k].kind = "class" /\ nodes'[m].kind = "class"
                               /\ nodes'[k].class = nodes'[m].class => k = m
    BY <1>4, <1>6 DEF CustomaryInv
  <2>2. /\ Ast!Customary
        /\ read = <<>> => s.kind = "binding"
        /\ s.kind = "class" =>
             \A n \in 1 .. Len(read) :
               read[n].kind \in {"class", "method"} => read[n].class # s.class
    BY <1>5, <2>1, CustomaryBefore
  <2>3. /\ l <= 1 => \A k \in 1 .. q : nodes[k].kind = "binding"
        /\ \A k, m \in 1 .. q :
             nodes[k].kind = "class" /\ nodes[m].kind = "class"
               /\ nodes[k].class = nodes[m].class => k = m
    BY <1>1, <1>3, <2>2 DEF AstInv, CustomaryInv
  <2>4. ASSUME l + 1 <= 1, NEW k \in 1 .. q + 1
        PROVE  nodes'[k].kind = "binding"
    <3>1. l = 0 /\ l <= 1 /\ read = <<>>
      BY <1>1, <2>4, EmptySeq
    <3>2. CASE k = q + 1
      BY <1>4, <2>2, <3>1, <3>2
    <3>3. CASE k \in 1 .. q
      BY <1>4, <2>3, <3>1, <3>3
    <3>4. QED
      BY <1>7, <3>2, <3>3
  <2>5. ASSUME d.kind = "class", NEW k \in 1 .. q, nodes[k].kind = "class"
        PROVE  nodes[k].class # d.class
    <3>1. d.class = s.class /\ s.kind \in {"class", "method"}
      BY <2>5
    <3>2. CASE s.kind = "class"
      <4>1. PICK n \in 1 .. Len(read) :
              read[n].kind \in {"class", "method"} /\ read[n].class = nodes[k].class
        BY <1>3, <2>5 DEF AstInv, ReachInv, NodesHaveText
      <4>2. QED
        BY <2>2, <3>1, <3>2, <4>1
    <3>3. CASE s.kind = "method"
      <4>1. ~ (l <= 1)
        BY <2>3, <2>5
      <4>2. visible = q
        BY <1>2, <1>3, <4>1
      <4>3. QED
        BY <2>5, <3>1, <3>3, <4>2 DEF Ast!ClassNodes
    <3>4. QED
      BY <3>1, <3>2, <3>3
  <2>6. ASSUME NEW k \in 1 .. q + 1, NEW m \in 1 .. q + 1,
               nodes'[k].kind = "class", nodes'[m].kind = "class",
               nodes'[k].class = nodes'[m].class
        PROVE  k = m
    <3>1. CASE k \in 1 .. q /\ m \in 1 .. q
      BY <1>4, <2>3, <2>6, <3>1
    <3>2. CASE k = q + 1 /\ m \in 1 .. q
      BY <1>4, <2>5, <2>6, <3>2
    <3>3. CASE k \in 1 .. q /\ m = q + 1
      BY <1>4, <2>5, <2>6, <3>3
    <3>4. QED
      BY <1>7, <3>1, <3>2, <3>3
  <2>7. QED
    BY <2>1, <2>4, <2>6
<1>11. QED
  BY <1>8, <1>9, <1>10 DEF AstInv

(* A method that joins the node its class has. *)
LEMMA NodeUpdated ==
  ASSUME AstInv, read \in Seq(Ast!Statement), NEW s \in Ast!Statement, Ast!UpdateClass(s)
  PROVE  AstInv'
<1>1. PICK l \in Nat : l = Len(read)
  BY LenProperties
<1>2. /\ nodes \in Seq(Node) /\ visible \in 0 .. Len(nodes)
  BY DEF AstInv, VisibleInv
<1>3. PICK q \in Nat : q = Len(nodes)
  BY <1>2, LenProperties
<1>4. PICK k \in 1 .. q : /\ k = Ast!Found(s.class, visible)
                          /\ nodes[k].kind = "class" /\ nodes[k].class = s.class
  <2>1. Ast!ClassNodes(s.class, visible) # {} /\ Len(nodes) \in Nat
    BY <1>3 DEF Ast!UpdateClass
  <2>2. Ast!Found(s.class, visible) \in 1 .. visible /\ nodes[Ast!Found(s.class, visible)].kind = "class"
        /\ nodes[Ast!Found(s.class, visible)].class = s.class
    BY <1>2, <2>1, FoundFacts
  <2>3. \A m \in 1 .. visible : m \in 1 .. q
    BY <1>2, <1>3
  <2>4. QED
    BY <2>2, <2>3
<1>5. PICK r \in MethodRec : r = Ast!Method(s, l + 1) /\ r.from = l + 1
  <2>1. s.type \in Types /\ s.ident \in Idents /\ l + 1 \in Nat
    BY <1>1, StatementFacts DEF Ast!UpdateClass
  <2>2. [type |-> s.type, ident |-> s.ident, from |-> l + 1] \in MethodRec
    BY <2>1 DEF MethodRec
  <2>3. QED
    BY <2>2 DEF Ast!Method
<1>6. nodes[k] \in Node
  BY <1>2, <1>3, <1>4, ElementOfSeq
<1>7. PICK p \in Seq(MethodRec) : p = nodes[k].methods
  BY <1>6 DEF Node
<1>8. PICK z \in Nat : z = Len(p)
  BY <1>7, LenProperties
<1>9. PICK p2 \in Seq(MethodRec) : /\ p2 = Append(p, r) /\ Len(p2) = z + 1
                                   /\ p2[z + 1] = r /\ \A j \in 1 .. z : p2[j] = p[j]
  <2>1. PICK t : t = Append(p, r)
    OBVIOUS
  <2>2. /\ t \in Seq(MethodRec) /\ Len(t) = z + 1
        /\ t[z + 1] = r /\ \A j \in 1 .. z : t[j] = p[j]
    BY ONLY <1>8, <2>1, AppendProperties
  <2>3. QED
    BY <2>1, <2>2
<1>10. PICK e \in Node : e = [nodes[k] EXCEPT !.methods = p2]
  BY <1>6, <1>9 DEF Node
<1>11. e.kind = nodes[k].kind /\ e.class = nodes[k].class /\ e.from = nodes[k].from /\ e.methods = p2
  BY <1>6, <1>10 DEF Node
<1>12. nodes' = [nodes EXCEPT ![k] = e]
  <2>1. Ast!Method(s, Len(read) + 1) = r
    BY <1>1, <1>5
  <2>2. nodes' = [nodes EXCEPT ![k].methods = Append(@, r)]
    BY <1>4, <2>1 DEF Ast!UpdateClass
  <2>3. QED
    BY <1>7, <1>9, <1>10, <2>2
<1>13. /\ nodes' \in Seq(Node) /\ Len(nodes') = q /\ nodes'[k] = e
       /\ \A m \in 1 .. q : m # k => nodes'[m] = nodes[m]
  <2>1. PICK t : t = [nodes EXCEPT ![k] = e]
    OBVIOUS
  <2>2. t \in Seq(Node) /\ Len(t) = q /\ \A m \in 1 .. q : t[m] = IF m = k THEN e ELSE nodes[m]
    BY <1>2, <1>3, <1>4, <1>10, <2>1, ExceptSeq
  <2>3. QED
    BY <1>4, <1>12, <2>1, <2>2
<1>14. \A m \in 1 .. q : /\ nodes'[m].kind = nodes[m].kind
                         /\ nodes'[m].class = nodes[m].class
                         /\ nodes'[m].from = nodes[m].from
  BY <1>11, <1>13
<1>15. /\ read' = Append(read, s) /\ visible' = IF read = <<>> THEN 0 ELSE q
       /\ parse' = parse
  BY <1>13 DEF Ast!Read, Ast!UpdateClass
<1>16. /\ Len(read') = l + 1 /\ read'[l + 1] = s
       /\ \A n \in 1 .. l : read'[n] = read[n]
  BY <1>1, <1>15, AppendProperties
<1>17. /\ \A n \in 1 .. l + 1 : n = l + 1 \/ n \in 1 .. l
       /\ l + 1 \in 1 .. l + 1
       /\ \A n \in 1 .. l : n \in 1 .. l + 1
       /\ \A j \in 1 .. z + 1 : j = z + 1 \/ j \in 1 .. z
       /\ z + 1 \in 1 .. z + 1
       /\ \A j \in 1 .. z : j \in 1 .. z + 1
  BY <1>1, <1>8
<1>18. VisibleInv'
  <2>1. read = <<>> <=> l + 1 <= 1
    BY <1>1, EmptySeq
  <2>2. visible' \in 0 .. q
    BY <1>3, <1>15
  <2>3. QED
    BY <1>13, <1>15, <1>16, <2>1, <2>2 DEF VisibleInv
<1>19. ReachInv'
  <2>1. ReachInv
    BY DEF AstInv
  <2>2. ASSUME NEW m \in 1 .. q, nodes'[m].kind = "class"
        PROVE  \E n \in 1 .. l + 1 :
                 read'[n].kind \in {"class", "method"} /\ read'[n].class = nodes'[m].class
    <3>1. PICK n \in 1 .. l :
            read[n].kind \in {"class", "method"} /\ read[n].class = nodes[m].class
      <4>1. nodes[m].kind = "class"
        BY <1>14, <2>2
      <4>2. QED
        BY ONLY <1>1, <1>3, <2>1, <4>1 DEF ReachInv, NodesHaveText
    <3>2. QED
      BY <1>14, <1>16, <1>17, <3>1
  <2>3. ASSUME NEW n \in 1 .. l + 1, read'[n].kind = "class"
        PROVE  \E m \in 1 .. q : /\ nodes'[m].kind = "class"
                                 /\ nodes'[m].class = read'[n].class /\ nodes'[m].from = n
    <3>1. n # l + 1
      BY <1>16, <2>3 DEF Ast!UpdateClass
    <3>2. n \in 1 .. l
      BY <1>17, <3>1
    <3>3. PICK m \in 1 .. q : /\ nodes[m].kind = "class"
                              /\ nodes[m].class = read[n].class /\ nodes[m].from = n
      BY <1>1, <1>3, <1>16, <2>1, <2>3, <3>2 DEF ReachInv, ClassesHaveNodes
    <3>4. QED
      BY <1>14, <1>16, <3>2, <3>3
  <2>4. ASSUME NEW n \in 1 .. l + 1, read'[n].kind = "method"
        PROVE  \E m \in 1 .. q :
                 /\ nodes'[m].kind = "class" /\ nodes'[m].class = read'[n].class
                 /\ \E j \in 1 .. Len(nodes'[m].methods) :
                      nodes'[m].methods[j] = Ast!Method(read'[n], n)
    <3>1. CASE n = l + 1
      <4>1. nodes'[k].methods[z + 1] = Ast!Method(read'[n], n) /\ z + 1 \in 1 .. Len(nodes'[k].methods)
        BY <1>5, <1>9, <1>11, <1>13, <1>16, <1>17, <3>1
      <4>2. nodes'[k].kind = "class" /\ nodes'[k].class = read'[n].class
        BY <1>4, <1>14, <1>16, <3>1
      <4>3. QED
        BY <4>1, <4>2
    <3>2. CASE n \in 1 .. l
      <4>1. PICK m \in 1 .. q :
              /\ nodes[m].kind = "class" /\ nodes[m].class = read[n].class
              /\ \E j \in 1 .. Len(nodes[m].methods) : nodes[m].methods[j] = Ast!Method(read[n], n)
        BY <1>1, <1>3, <1>16, <2>1, <2>4, <3>2 DEF ReachInv, MethodsHaveNodes
      <4>2. PICK j \in 1 .. Len(nodes[m].methods) : nodes[m].methods[j] = Ast!Method(read[n], n)
        BY <4>1
      <4>3. read'[n] = read[n]
        BY <1>16, <3>2
      <4>4. nodes'[m].methods[j] = nodes[m].methods[j] /\ j \in 1 .. Len(nodes'[m].methods)
        <5>1. CASE m = k
          <6>1. j \in 1 .. z
            BY <1>7, <1>8, <5>1
          <6>2. QED
            BY <1>7, <1>9, <1>11, <1>13, <1>17, <5>1, <6>1
        <5>2. CASE m # k
          BY <1>13, <5>2
        <5>3. QED
          BY <5>1, <5>2
      <4>5. nodes'[m].methods[j] = Ast!Method(read'[n], n)
        BY ONLY <4>2, <4>3, <4>4
      <4>6. nodes'[m].kind = "class" /\ nodes'[m].class = read'[n].class
        BY <1>14, <4>1, <4>3
      <4>7. QED
        BY ONLY <4>4, <4>5, <4>6
    <3>3. QED
      BY <1>17, <3>1, <3>2
  <2>5. ASSUME NEW m \in 1 .. q, NEW j \in 1 .. Len(nodes[m].methods)
        PROVE  /\ nodes[m].methods[j].from \in Nat
               /\ nodes[m].methods[j].from <= l
               /\ \A i \in 1 .. j : nodes[m].methods[i].from <= nodes[m].methods[j].from
    <3>1. /\ nodes[m].methods[j].from <= l
          /\ \A i \in 1 .. j : nodes[m].methods[i].from <= nodes[m].methods[j].from
      BY <1>1, <1>3, <2>1 DEF ReachInv, MethodsInOrder
    <3>2. nodes[m] \in Node
      BY <1>2, <1>3, ElementOfSeq
    <3>3. nodes[m].methods \in Seq(MethodRec)
      BY <3>2 DEF Node
    <3>4. nodes[m].methods[j] \in MethodRec
      BY <3>3, ElementOfSeq
    <3>5. QED
      BY <3>1, <3>4 DEF MethodRec
  <2>6. ASSUME NEW m \in 1 .. q, NEW j \in 1 .. Len(nodes'[m].methods)
        PROVE  /\ nodes'[m].methods[j].from <= l + 1
               /\ \A i \in 1 .. j : nodes'[m].methods[i].from <= nodes'[m].methods[j].from
    <3>1. CASE m # k
      <4>1. nodes'[m] = nodes[m] /\ j \in 1 .. Len(nodes[m].methods)
        BY <1>13, <3>1
      <4>2. /\ nodes[m].methods[j].from \in Nat
            /\ nodes[m].methods[j].from <= l
            /\ \A i \in 1 .. j : nodes[m].methods[i].from <= nodes[m].methods[j].from
        BY <2>5, <4>1
      <4>3. nodes[m].methods[j].from <= l + 1
        BY <1>1, <4>2
      <4>4. QED
        BY ONLY <4>1, <4>2, <4>3
    <3>2. CASE m = k
      <4>1. nodes'[m].methods = p2 /\ j \in 1 .. z + 1
        BY <1>9, <1>11, <1>13, <3>2
      <4>2. \A i \in 1 .. z : /\ p[i].from \in Nat /\ p[i].from <= l /\ p2[i] = p[i]
                              /\ \A h \in 1 .. i : p[h].from <= p[i].from
        BY <1>7, <1>8, <1>9, <2>5
      <4>3. p2[z + 1].from = l + 1
        BY <1>5, <1>9
      <4>4. CASE j \in 1 .. z
        <5>1. \A i \in 1 .. j : i \in 1 .. z
          BY <1>8, <4>4
        <5>2. QED
          BY <1>1, <4>1, <4>2, <4>4, <5>1
      <4>5. CASE j = z + 1
        <5>1. \A i \in 1 .. j : i = z + 1 \/ i \in 1 .. z
          BY <1>17, <4>5
        <5>2. \A i \in 1 .. j : p2[i].from <= l + 1
          <6>1. \A i \in 1 .. z : p2[i].from <= l + 1
            BY <1>1, <4>2
          <6>2. p2[z + 1].from <= l + 1
            BY <1>1, <4>3
          <6>3. QED
            BY ONLY <5>1, <6>1, <6>2
        <5>3. p2[j].from = l + 1 /\ l + 1 <= l + 1
          BY <1>1, <4>3, <4>5
        <5>4. QED
          BY <4>1, <5>2, <5>3
      <4>6. QED
        BY <1>17, <4>1, <4>4, <4>5
    <3>3. QED
      BY <3>1, <3>2
  <2>7. QED
    <3>1. Len(nodes') = q /\ Len(read') = l + 1
      BY <1>13, <1>16
    <3>2. NodesHaveText'
      BY ONLY <3>1, <2>2 DEF NodesHaveText
    <3>3. ClassesHaveNodes'
      BY ONLY <3>1, <2>3 DEF ClassesHaveNodes
    <3>4. MethodsHaveNodes'
      BY ONLY <3>1, <2>4 DEF MethodsHaveNodes
    <3>5. MethodsInOrder'
      BY ONLY <3>1, <2>6 DEF MethodsInOrder
    <3>6. QED
      BY ONLY <3>2, <3>3, <3>4, <3>5 DEF ReachInv
<1>20. CustomaryInv'
  <2>1. SUFFICES ASSUME Ast!Customary'
                 PROVE  /\ l + 1 <= 1 => \A m \in 1 .. q : nodes'[m].kind = "binding"
                        /\ \A m, h \in 1 .. q :
                             nodes'[m].kind = "class" /\ nodes'[h].kind = "class"
                               /\ nodes'[m].class = nodes'[h].class => m = h
    BY <1>13, <1>16 DEF CustomaryInv
  <2>2. Ast!Customary
    BY <1>15, <2>1, CustomaryBefore
  <2>3. /\ l <= 1 => \A m \in 1 .. q : nodes[m].kind = "binding"
        /\ \A m, h \in 1 .. q :
             nodes[m].kind = "class" /\ nodes[h].kind = "class"
               /\ nodes[m].class = nodes[h].class => m = h
    BY <1>1, <1>3, <2>2 DEF AstInv, CustomaryInv
  <2>4. l + 1 <= 1 => l <= 1
    BY <1>1
  <2>5. QED
    BY <1>14, <2>3, <2>4
<1>21. QED
  BY <1>18, <1>19, <1>20 DEF AstInv

-----------------------------------------------------------------------------
LEMMA AstStart ==
  ASSUME FileStart
  PROVE  AstInv
<1>1. nodes = <<>> /\ read = <<>> /\ visible = 0 /\ parse = "parse"
  BY DEF FileStart, Ast!Init
<1>2. Len(<<>>) = 0 /\ <<>> \in Seq(Node)
  OBVIOUS
<1>3. nodes \in Seq(Node)
  BY <1>1, <1>2
<1>4. VisibleInv
  BY <1>1, <1>2, <1>3 DEF VisibleInv
<1>5. \A x : ~ (x \in 1 .. 0)
  OBVIOUS
<1>6. ReachInv
  BY <1>1, <1>2, <1>5 DEF ReachInv, NodesHaveText, ClassesHaveNodes,
                          MethodsHaveNodes, MethodsInOrder
<1>7. CustomaryInv
  BY <1>1, <1>2, <1>5 DEF CustomaryInv
<1>8. QED
  BY <1>4, <1>6, <1>7 DEF AstInv

(* The four actions of the grammar. *)
LEMMA ReduceKeepsAst ==
  ASSUME AstInv, PlacesInv, Reduce
  PROVE  AstInv'
<1>1. PICK s \in Ast!Statement :
        \/ Ast!BindingStatement(s) \/ Ast!ClassStatement(s)
        \/ Ast!ManufactureClass(s) \/ Ast!UpdateClass(s)
  <2>1. inparser # <<>> /\ inparser \in Seq(Item)
    BY DEF Reduce, PlacesInv
  <2>2. Head(inparser).s \in Ast!Statement
    <3>1. Head(inparser) \in Item
      BY <2>1, HeadTailProperties
    <3>2. QED
      BY <3>1 DEF Item
  <2>3. QED
    BY <2>2 DEF Reduce
<1>2. PICK n \in Nat : n = Len(read) + 1
  <2>1. Len(read) \in Nat
    BY LenProperties DEF PlacesInv
  <2>2. QED
    BY <2>1
<1>3. read \in Seq(Ast!Statement)
  BY DEF PlacesInv
<1>4. CASE Ast!BindingStatement(s)
  <2>1. s.kind = "binding" /\ s.body \in Ast!Bodies /\ Ast!Read(s)
    BY <1>4, StatementFacts DEF Ast!BindingStatement
  <2>2. PICK b \in Seq(MethodRec) : /\ b = Ast!Body(s, n)
                                    /\ \A j \in 1 .. Len(b) : b[j].from = n
    BY <2>1, BodyFacts
  <2>3. PICK d \in Node : d = [kind |-> "binding", class |-> "", from |-> n, methods |-> b]
    BY DEF Node
  <2>4. nodes' = Append(nodes, d)
    BY <1>2, <1>4, <2>2, <2>3 DEF Ast!BindingStatement
  <2>5. d.kind = "binding" /\ \A j \in 1 .. Len(d.methods) : d.methods[j].from = Len(read) + 1
    BY <1>2, <2>2, <2>3
  <2>6. QED
    BY ONLY AstInv, <1>3, <2>1, <2>4, <2>5, NodeAdded
<1>5. CASE Ast!ClassStatement(s)
  <2>1. s.kind = "class" /\ s.body \in Ast!Bodies /\ s.class \in Classes /\ Ast!Read(s)
    BY <1>5, StatementFacts DEF Ast!ClassStatement
  <2>2. PICK b \in Seq(MethodRec) : /\ b = Ast!Body(s, n)
                                    /\ \A j \in 1 .. Len(b) : b[j].from = n
    BY <2>1, BodyFacts
  <2>3. PICK d \in Node : d = [kind |-> "class", class |-> s.class, from |-> n, methods |-> b]
    BY <2>1 DEF Node
  <2>4. nodes' = Append(nodes, d)
    BY <1>2, <1>5, <2>2, <2>3 DEF Ast!ClassStatement
  <2>5. /\ d.kind = "class" /\ d.class = s.class /\ d.from = Len(read) + 1
        /\ \A j \in 1 .. Len(d.methods) : d.methods[j].from = Len(read) + 1
    BY <1>2, <2>2, <2>3
  <2>6. QED
    BY ONLY AstInv, <1>3, <2>1, <2>4, <2>5, NodeAdded
<1>6. CASE Ast!ManufactureClass(s)
  <2>1. /\ s.kind = "method" /\ s.class \in Classes /\ s.type \in Types /\ s.ident \in Idents
        /\ Ast!Read(s) /\ Ast!ClassNodes(s.class, visible) = {}
    BY <1>6, StatementFacts DEF Ast!ManufactureClass
  <2>2. PICK r \in MethodRec : r = Ast!Method(s, n) /\ r.from = n
    <3>1. [type |-> s.type, ident |-> s.ident, from |-> n] \in MethodRec
      BY <2>1 DEF MethodRec
    <3>2. QED
      BY <3>1 DEF Ast!Method
  <2>3. PICK b : b = <<r>>
    OBVIOUS
  <2>4. b \in Seq(MethodRec) /\ Len(b) = 1 /\ b[1] = r
    BY ONLY <2>3
  <2>5. PICK d \in Node : d = [kind |-> "class", class |-> s.class, from |-> n, methods |-> b]
    BY <2>1, <2>4 DEF Node
  <2>6. nodes' = Append(nodes, d)
    BY <1>2, <1>6, <2>2, <2>3, <2>5 DEF Ast!ManufactureClass
  <2>7. \A j \in 1 .. 1 : j = 1
    OBVIOUS
  <2>8. d.kind = "class" /\ d.class = s.class /\ d.methods = b
    BY <2>5
  <2>9. \A j \in 1 .. Len(d.methods) : d.methods[j].from = Len(read) + 1
    BY <1>2, <2>2, <2>4, <2>7, <2>8
  <2>10. \E j \in 1 .. Len(d.methods) : d.methods[j] = Ast!Method(s, Len(read) + 1)
    <3>1. 1 \in 1 .. 1 /\ Len(d.methods) = 1
      BY <2>4, <2>8
    <3>2. d.methods[1] = Ast!Method(s, Len(read) + 1)
      BY <1>2, <2>2, <2>4, <2>8
    <3>3. QED
      BY <3>1, <3>2
  <2>11. QED
    BY ONLY AstInv, <1>3, <2>1, <2>6, <2>8, <2>9, <2>10, NodeAdded
<1>7. CASE Ast!UpdateClass(s)
  BY <1>3, <1>7, NodeUpdated
<1>8. QED
  BY <1>1, <1>4, <1>5, <1>6, <1>7

LEMMA SameAstInv ==
  ASSUME AstInv, UNCHANGED <<read, nodes>>,
         UNCHANGED <<visible, parse>> \/ (parse' # "parse" /\ visible' \in {visible, Len(nodes)})
  PROVE  AstInv'
<1>1. ReachInv'
  BY DEF AstInv, ReachInv, NodesHaveText, ClassesHaveNodes,
         MethodsHaveNodes, MethodsInOrder
<1>2. CustomaryInv'
  <2>1. Ast!Customary' <=> Ast!Customary
    BY DEF Ast!Customary, Ast!Declarations, Ast!Statements
  <2>2. QED
    BY <2>1 DEF AstInv, CustomaryInv
<1>3. VisibleInv'
  <2>1. Len(nodes) \in Nat
    BY LenProperties DEF AstInv, VisibleInv
  <2>2. QED
    BY <2>1 DEF AstInv, VisibleInv
<1>4. QED
  BY <1>1, <1>2, <1>3 DEF AstInv

-----------------------------------------------------------------------------
LEMMA FileInitInv ==
  ASSUME FileInit
  PROVE  FileInv
<1>1. PICK S \in SUBSET Files : Root \in S /\ text \in [S -> BoundedSeq(Line, MaxLines)]
  BY DEF FileInit, Texts
<1>2. DOMAIN text = S /\ \A f \in S : text[f] \in BoundedSeq(Line, MaxLines)
  BY <1>1
<1>3. \A f \in S : text[f] \in Seq(Line)
  <2>1. ASSUME NEW f \in S PROVE text[f] \in Seq(Line)
    <3>1. PICK m \in 0 .. MaxLines : text[f] \in [1 .. m -> Line]
      BY <1>2 DEF BoundedSeq, SeqOf
    <3>2. m \in Nat
      BY LinesAssumption
    <3>3. QED
      BY <3>1, <3>2
  <2>2. QED
    BY <2>1
<1>4. FileStart
  BY DEF FileInit
<1>5. LexerInv
  BY <1>1, <1>2, <1>3, <1>4, LexerStartInv DEF FileStart
<1>6. QED
  BY <1>4, <1>5, PlacesStart, AstStart DEF FileInv

(* The token and the statement it begins belong to two components, and one
   step of the lexer may come between a statement and its reduction. *)
LEMMA FileNextKeepsInv ==
  ASSUME FileInv, [FileNext]_allvars
  PROVE  FileInv'
<1>1. LexerInv /\ PlacesInv /\ AstInv
  BY DEF FileInv
<1>2. ASSUME NEW s \in Ast!Statement, NEW block \in BOOLEAN, Shift(s, block)
      PROVE  FileInv'
  <2>1. LexerInv'
    BY <1>1, <1>2, TokenKeepsInv DEF Shift
  <2>2. PlacesInv'
    BY <1>1, <1>2, ShiftKeepsPlaces
  <2>3. AstInv'
    BY <1>1, <1>2, SameAstInv DEF Shift, astvars
  <2>4. QED
    BY <2>1, <2>2, <2>3 DEF FileInv
<1>3. CASE LexerStep
  <2>1. LexerInv' /\ UNCHANGED tokens
    BY <1>1, <1>3, DirectiveKeepsInv DEF LexerStep
  <2>2. PlacesInv'
    BY <1>1, <1>3, <2>1, SamePlacesInv DEF LexerStep, astvars
  <2>3. AstInv'
    BY <1>1, <1>3, SameAstInv DEF LexerStep, astvars
  <2>4. QED
    BY <2>1, <2>2, <2>3 DEF FileInv
<1>4. CASE Reduce
  <2>1. LexerInv'
    BY <1>1, <1>4, SameLexerKeepsInv DEF Reduce, vars
  <2>2. QED
    BY <1>1, <1>4, <2>1, ReduceKeepsPlaces, ReduceKeepsAst DEF FileInv
<1>5. CASE Accept
  <2>1. UNCHANGED <<vars, written, inparser, located>>
    BY <1>5 DEF Accept
  <2>2. /\ UNCHANGED <<read, nodes>> /\ parse' # "parse"
        /\ visible' \in {visible, Len(nodes)}
    BY <1>5 DEF Accept, Ast!Abort, Ast!EndOfFile
  <2>3. QED
    BY <1>1, <2>1, <2>2, SameLexerKeepsInv, SamePlacesInv, SameAstInv DEF FileInv, vars
<1>6. CASE SyntaxError
  <2>1. UNCHANGED <<vars, written, inparser, located>>
    BY <1>6 DEF SyntaxError
  <2>2. UNCHANGED <<read, nodes>> /\ parse' # "parse" /\ visible' = visible
    BY <1>6 DEF SyntaxError, Ast!Abort
  <2>3. QED
    BY <1>1, <2>1, <2>2, SameLexerKeepsInv, SamePlacesInv, SameAstInv DEF FileInv, vars
<1>7. CASE UNCHANGED allvars
  BY <1>1, <1>7, SameLexerKeepsInv, SamePlacesInv, SameAstInv DEF FileInv, allvars, vars, astvars
<1>8. QED
  BY <1>2, <1>3, <1>4, <1>5, <1>6, <1>7 DEF FileNext, Parse

(* The invariant of lexer, parser and AST together. *)
THEOREM FileInvariant == FileSpec => []FileInv
<1>1. FileInit => FileInv
  BY FileInitInv
<1>2. FileInv /\ [FileNext]_allvars => FileInv'
  BY FileNextKeepsInv
<1>3. QED
  BY <1>1, <1>2, PTL DEF FileSpec

-----------------------------------------------------------------------------
(* The two stacks of the lexer agree at every depth of includes: a file that
   is come back to is told apart from the one it included, and goes on at
   the line it was left at. *)
THEOREM StacksAgree == FileSpec => []LocationsFollowBuffers
<1>1. FileInv => LocationsFollowBuffers
  BY DEF FileInv, LexerInv
<1>2. QED
  BY <1>1, FileInvariant, PTL

(* No statement is lost or moved between the lexer and the AST: each is kept
   with the file and line it stands at, though the lexer may have left that
   file when the grammar comes to reduce the statement. *)
THEOREM KeptAsWritten == FileSpec => []StatementsAsWritten
<1>1. FileInv => StatementsAsWritten
  <2> SUFFICES ASSUME PlacesInv, tokens \in Seq(Place) PROVE StatementsAsWritten
    BY DEF FileInv, LexerInv, LexerTypes
  <2>2. PICK n \in Nat, l \in Nat :
          n = Len(inparser) /\ l = Len(located) /\ l = Len(read) /\ Len(tokens) = l + n
    BY LenProperties DEF PlacesInv
  <2>3. DOMAIN read = 1 .. l /\ DOMAIN inparser = 1 .. n
    BY <2>2, LenProperties DEF PlacesInv
  <2>4. \A k \in DOMAIN read : read[k] = written[<<located[k].file, located[k].line>>].s
    BY <2>2, <2>3 DEF PlacesInv, Stands
  <2>5. PICK ats : ats = [k \in DOMAIN inparser |-> inparser[k].at]
    OBVIOUS
  <2>6. ats \in Seq(Place) /\ Len(ats) = n /\ \A k \in 1 .. n : ats[k] = inparser[k].at
    <3>1. \A k \in 1 .. n : inparser[k].at \in Place
      <4>1. \A k \in 1 .. n : inparser[k] \in Item
        BY <2>2, ElementOfSeq DEF PlacesInv
      <4>2. QED
        BY <4>1 DEF Item
    <3>2. ats \in [1 .. n -> Place] /\ \A k \in 1 .. n : ats[k] = inparser[k].at
      BY <2>3, <2>5, <3>1
    <3>3. QED
      BY <3>2
  <2>7. PICK c : c = located \o ats
    OBVIOUS
  <2>8. /\ c \in Seq(Place) /\ Len(c) = l + n
        /\ \A k \in 1 .. l + n : c[k] = IF k <= l THEN located[k] ELSE ats[k - l]
    <3>1. located \in Seq(Place)
      BY DEF PlacesInv
    <3>2. /\ located \o ats \in Seq(Place)
          /\ Len(located \o ats) = Len(located) + Len(ats)
          /\ \A k \in 1 .. Len(located) + Len(ats) :
               (located \o ats)[k] = IF k <= Len(located) THEN located[k]
                                     ELSE ats[k - Len(located)]
      BY ONLY <2>6, <3>1, ConcatProperties
    <3>3. QED
      BY ONLY <2>2, <2>6, <2>7, <3>2
  <2>9. \A k \in 1 .. l + n : tokens[k] = c[k]
    <3>1. ASSUME NEW k \in 1 .. l + n PROVE tokens[k] = c[k]
      <4>1. CASE k <= l
        BY <2>2, <2>8, <4>1 DEF PlacesInv
      <4>2. CASE ~ (k <= l)
        <5>1. k - l \in 1 .. n /\ l + (k - l) = k
          BY <2>2, <4>2
        <5>2. tokens[l + (k - l)] = inparser[k - l].at
          BY <2>2, <5>1 DEF PlacesInv
        <5>3. QED
          BY <2>6, <2>8, <4>2, <5>1, <5>2
      <4>3. QED
        BY <4>1, <4>2
    <3>2. QED
      BY <3>1
  <2>10. tokens = c
    <3>1. Len(tokens) = l + n
      BY <2>2
    <3>2. QED
      BY <2>8, <2>9, <3>1, SeqEqual
  <2>11. QED
    BY <2>2, <2>4, <2>5, <2>7, <2>10 DEF StatementsAsWritten, PlacesInv
<1>2. QED
  BY <1>1, FileInvariant, PTL

-----------------------------------------------------------------------------
(* In a customary file the node found for a class is the one that every
   statement of the class went to. *)
LEMMA NodeOfClass ==
  ASSUME FileInv, Ast!Customary, NEW name, NEW k \in 1 .. Len(nodes),
         nodes[k].kind = "class", nodes[k].class = name
  PROVE  /\ nodes[k] \in Node
         /\ Ast!Found(name, Len(nodes)) = k /\ Ast!MethodsOf(name) = nodes[k].methods
<1>1. nodes \in Seq(Node) /\ AstInv
  BY DEF FileInv, AstInv, VisibleInv
<1>2. PICK q \in Nat : q = Len(nodes)
  BY <1>1, LenProperties
<1>3. k \in Ast!ClassNodes(name, q)
  BY <1>2 DEF Ast!ClassNodes
<1>4. /\ Ast!Found(name, q) \in 1 .. q
      /\ nodes[Ast!Found(name, q)].kind = "class" /\ nodes[Ast!Found(name, q)].class = name
  BY <1>2, <1>3, FoundFacts
<1>5. Ast!Found(name, q) = k
  BY <1>1, <1>2, <1>4 DEF AstInv, CustomaryInv
<1>6. QED
  BY <1>1, <1>2, <1>3, <1>5, ElementOfSeq DEF Ast!MethodsOf

(* The place of a method in its class. *)
LEMMA MethodOfClass ==
  ASSUME FileInv, Ast!Customary, NEW name, NEW n \in Ast!Statements(name)
  PROVE  \E j \in DOMAIN Ast!MethodsOf(name) :
           /\ Ast!MethodsOf(name)[j].type = read[n].type
           /\ Ast!MethodsOf(name)[j].ident = read[n].ident
           /\ Ast!MethodsOf(name)[j].from = n
           /\ DOMAIN Ast!MethodsOf(name) \subseteq Nat
           /\ \A i \in DOMAIN Ast!MethodsOf(name) :
                i <= j => Ast!MethodsOf(name)[i].from <= n
<1>1. n \in 1 .. Len(read) /\ read[n].kind = "method" /\ read[n].class = name
  BY DEF Ast!Statements
<1>2. PICK k \in 1 .. Len(nodes) :
        /\ nodes[k].kind = "class" /\ nodes[k].class = name
        /\ \E j \in 1 .. Len(nodes[k].methods) : nodes[k].methods[j] = Ast!Method(read[n], n)
  BY <1>1 DEF FileInv, AstInv, ReachInv, MethodsHaveNodes
<1>3. nodes[k] \in Node /\ Ast!MethodsOf(name) = nodes[k].methods
  BY <1>2, NodeOfClass
<1>4. PICK p \in Seq(MethodRec) : p = nodes[k].methods
  BY <1>3 DEF Node
<1>5. DOMAIN p = 1 .. Len(p) /\ Len(p) \in Nat
  BY <1>4, LenProperties
<1>6. PICK j \in 1 .. Len(p) : p[j] = Ast!Method(read[n], n)
  BY <1>2, <1>4
<1>7. p[j].type = read[n].type /\ p[j].ident = read[n].ident /\ p[j].from = n
  BY <1>6 DEF Ast!Method
<1>8. \A i \in 1 .. j : p[i].from <= p[j].from
  BY <1>4, <1>6 DEF FileInv, AstInv, ReachInv, MethodsInOrder
<1>9. \A i \in DOMAIN p : i <= j => i \in 1 .. j
  BY <1>5, <1>6
<1>10. DOMAIN p \subseteq Nat
  BY <1>5
<1>11. QED
  BY <1>3, <1>4, <1>5, <1>6, <1>7, <1>8, <1>9, <1>10

(* A file that declares a class before its methods loses none of them,
   whatever came between and wherever in the includes they stand: the node
   the code generator finds has them all, and the body of the class. *)
THEOREM NoMethodLost == FileSpec => []MethodsReachClassIfCustomary
<1>1. FileInv => MethodsReachClassIfCustomary
  <2> SUFFICES ASSUME FileInv, Ast!Customary, NEW name \in Classes
               PROVE  /\ Ast!Statements(name) \subseteq
                           {Ast!MethodsOf(name)[k].from : k \in DOMAIN Ast!MethodsOf(name)}
                      /\ \A n \in Ast!Declarations(name) :
                           nodes[Ast!Found(name, Len(nodes))].from = n
    BY DEF MethodsReachClassIfCustomary, Ast!MethodsReachClassIfCustomary
  <2>1. ASSUME NEW n \in Ast!Statements(name)
        PROVE  \E k \in DOMAIN Ast!MethodsOf(name) : n = Ast!MethodsOf(name)[k].from
    BY MethodOfClass
  <2>2. ASSUME NEW n \in Ast!Declarations(name)
        PROVE  nodes[Ast!Found(name, Len(nodes))].from = n
    <3>1. n \in 1 .. Len(read) /\ read[n].kind = "class" /\ read[n].class = name
      BY DEF Ast!Declarations
    <3>2. PICK k \in 1 .. Len(nodes) : /\ nodes[k].kind = "class"
                                       /\ nodes[k].class = name /\ nodes[k].from = n
      BY <3>1 DEF FileInv, AstInv, ReachInv, ClassesHaveNodes
    <3>3. QED
      BY <3>2, NodeOfClass
  <2>3. QED
    BY <2>1, <2>2
<1>2. QED
  BY <1>1, FileInvariant, PTL

(* A search among methods in the order of the text ends at the first. *)
LEMMA FirstFoundIsFirst ==
  ASSUME NEW name, NEW T \in SUBSET Nat, NEW j \in T, NEW n,
         \A i \in T : i <= j => Ast!MethodsOf(name)[i].from <= n
  PROVE  Ast!FirstFound(name, T).from <= n
<1>1. \E x \in T : \A y \in T : x <= y
  BY LeastExists
<1>2. PICK x : x = Ast!Min(T)
  OBVIOUS
<1>3. x \in T /\ x <= j
  BY <1>1, <1>2 DEF Ast!Min
<1>4. QED
  BY <1>2, <1>3 DEF Ast!FirstFound

(* The first author's method of a class wins in every customary file: what
   is written later, in whatever file, never takes its place. *)
THEOREM FirstWins == FileSpec => []FirstMethodWins
<1>1. FileInv => FirstMethodWins
  <2> SUFFICES ASSUME FileInv, Ast!Customary, NEW name \in Classes,
                      NEW n \in Ast!Statements(name)
               PROVE  /\ Ast!FirstFound(name, Ast!FindMethod(name, read[n].type)).from <= n
                      /\ read[n].ident # "" =>
                           Ast!FirstFound(name, Ast!FindMethodIdent(name, read[n].type,
                                                                    read[n].ident)).from <= n
    BY DEF FirstMethodWins, Ast!FirstMethodWins
  <2>1. PICK j \in DOMAIN Ast!MethodsOf(name) :
           /\ Ast!MethodsOf(name)[j].type = read[n].type
           /\ Ast!MethodsOf(name)[j].ident = read[n].ident
           /\ Ast!MethodsOf(name)[j].from = n
           /\ DOMAIN Ast!MethodsOf(name) \subseteq Nat
           /\ \A i \in DOMAIN Ast!MethodsOf(name) :
                i <= j => Ast!MethodsOf(name)[i].from <= n
    BY MethodOfClass
  <2>2. PICK T : T = Ast!FindMethod(name, read[n].type)
    OBVIOUS
  <2>3. T \in SUBSET Nat /\ j \in T /\ T \subseteq DOMAIN Ast!MethodsOf(name)
    BY <2>1, <2>2 DEF Ast!FindMethod
  <2>4. Ast!FirstFound(name, T).from <= n
    BY <2>1, <2>3, FirstFoundIsFirst
  <2>5. ASSUME read[n].ident # ""
        PROVE  Ast!FirstFound(name, Ast!FindMethodIdent(name, read[n].type,
                                                        read[n].ident)).from <= n
    <3>1. PICK U : U = Ast!FindMethodIdent(name, read[n].type, read[n].ident)
      OBVIOUS
    <3>2. U \in SUBSET Nat /\ j \in U /\ U \subseteq DOMAIN Ast!MethodsOf(name)
      BY <2>1, <2>2, <2>3, <2>5, <3>1 DEF Ast!FindMethodIdent
    <3>3. QED
      BY <2>1, <3>1, <3>2, FirstFoundIsFirst
  <2>6. QED
    BY <2>2, <2>4, <2>5
<1>2. QED
  BY <1>1, FileInvariant, PTL

-----------------------------------------------------------------------------
(* what the definition of FlattenSeq asks of its function, up to m *)
Flattens(f, s, m) ==
  f = [i \in 1 .. m |-> IF i = 1 THEN s[i] ELSE f[i-1] \o s[i]]

(* Such a function exists, however long the list is, *)
LEMMA FlattensExists ==
  ASSUME NEW s, NEW m \in Nat
  PROVE  \E f : Flattens(f, s, m)
<1> DEFINE Bad == {n \in Nat : ~ \E f : Flattens(f, s, n)}
<1>1. ASSUME Bad # {} PROVE FALSE
  <2>1. PICK n \in Bad : \A y \in Bad : n <= y
    BY <1>1, LeastExists
  <2>2. CASE n = 0
    <3>1. \A f : [i \in 1 .. 0 |-> IF i = 1 THEN s[i] ELSE f[i-1] \o s[i]] = <<>>
      OBVIOUS
    <3>2. Flattens(<<>>, s, 0)
      BY <3>1, Zenon DEF Flattens
    <3>3. QED
      BY <2>1, <2>2, <3>2
  <2>3. CASE n # 0
    <3>1. n-1 \in Nat /\ n-1 \notin Bad
      BY <2>1, <2>3
    <3>2. PICK g : Flattens(g, s, n-1)
      BY <3>1
    <3> DEFINE last == IF n = 1 THEN s[n] ELSE g[n-1] \o s[n]
               f == [j \in 1 .. n |-> IF j = n THEN last ELSE g[j]]
    <3>3. \A j \in 1 .. n : j # 1 => f[j-1] = g[j-1]
      BY <3>1
    <3>4. \A j \in 1 .. n-1 : g[j] = IF j = 1 THEN s[j] ELSE g[j-1] \o s[j]
      BY <3>2, Zenon DEF Flattens
    <3>5. \A j \in 1 .. n : f[j] = IF j = 1 THEN s[j] ELSE f[j-1] \o s[j]
      BY <3>1, <3>3, <3>4
    <3>6. f = [j \in 1 .. n |-> f[j]]
      OBVIOUS
    <3> HIDE DEF f
    <3>7. Flattens(f, s, n)
      BY <3>5, <3>6, Zenon DEF Flattens
    <3>8. QED
      BY <2>1, <3>7
  <2>4. QED
    BY <2>2, <2>3
<1>2. QED
  BY <1>1

(* and its last value is the list. *)
LEMMA FlattenSeqValue ==
  ASSUME NEW s, Len(s) \in Nat, Len(s) # 0
  PROVE  \E f : Flattens(f, s, Len(s)) /\ FlattenSeq(s) = f[Len(s)]
<1> DEFINE f == CHOOSE g : Flattens(g, s, Len(s))
<1>1. Flattens(f, s, Len(s))
  BY FlattensExists, Zenon
<1>2. FlattenSeq(s) = f[Len(s)]
  BY Zenon DEF FlattenSeq, Flattens
<1>3. QED
  BY <1>1, <1>2, Zenon

(* One element more is added at the end. *)
LEMMA FlattenSeqStep ==
  ASSUME NEW m \in Nat, NEW s, NEW t, Len(s) = m, Len(t) = m + 1,
         \A k \in 1 .. m : t[k] = s[k]
  PROVE  m # 0 => FlattenSeq(t) = FlattenSeq(s) \o t[m + 1]
<1> SUFFICES ASSUME m # 0 PROVE FlattenSeq(t) = FlattenSeq(s) \o t[m + 1]
  OBVIOUS
<1>1. PICK f : Flattens(f, t, m + 1) /\ FlattenSeq(t) = f[m + 1]
  BY FlattenSeqValue
<1>2. PICK g : Flattens(g, s, m) /\ FlattenSeq(s) = g[m]
  BY FlattenSeqValue
<1>3. \A j \in 1 .. m + 1 : f[j] = IF j = 1 THEN t[j] ELSE f[j-1] \o t[j]
  BY <1>1, Zenon DEF Flattens
<1>4. \A j \in 1 .. m : g[j] = IF j = 1 THEN s[j] ELSE g[j-1] \o s[j]
  BY <1>2, Zenon DEF Flattens
<1> DEFINE Bad == {j \in 1 .. m : f[j] # g[j]}
<1>5. ASSUME Bad # {} PROVE FALSE
  <2>1. PICK n \in Bad : \A y \in Bad : n <= y
    <3>1. Bad \in SUBSET Nat
      OBVIOUS
    <3> HIDE DEF Bad
    <3>2. QED
      BY <1>5, <3>1, LeastExists
  <2>2. n \in 1 .. m /\ f[n] # g[n] /\ n \in 1 .. m + 1
    BY <2>1
  <2>3. n # 1 => n - 1 \in 1 .. m /\ f[n - 1] = g[n - 1]
    BY <2>1
  <2>4. QED
    BY <1>3, <1>4, <2>2, <2>3
<1>6. f[m] = g[m] /\ m + 1 # 1 /\ (m + 1) - 1 = m /\ m + 1 \in 1 .. m + 1
  BY <1>5
<1>7. QED
  BY <1>1, <1>2, <1>3, <1>6

(* the elements of each of the n lists E[1], E[2], ... in turn *)
Flat(E, n) == FlattenSeq([k \in 1 .. n |-> E[k]])

LEMMA FlatZero ==
  ASSUME NEW E
  PROVE  Flat(E, 0) = <<>>
<1>1. [k \in 1 .. 0 |-> E[k]] = <<>>
  OBVIOUS
<1>2. QED
  BY <1>1 DEF Flat, FlattenSeq

LEMMA FlatStep ==
  ASSUME NEW S, NEW n \in Nat, NEW E, \A k \in 1 .. n + 1 : E[k] \in Seq(S),
         Flat(E, n) \in Seq(S)
  PROVE  Flat(E, n + 1) \in Seq(S) /\ Flat(E, n + 1) = Flat(E, n) \o E[n + 1]
<1>1. PICK s : s = [k \in 1 .. n |-> E[k]]
  OBVIOUS
<1>2. PICK t : t = [k \in 1 .. n + 1 |-> E[k]]
  OBVIOUS
<1>3. Len(s) = n /\ Len(t) = n + 1 /\ \A k \in 1 .. n : t[k] = s[k]
  BY <1>1, <1>2
<1>4. t[n + 1] = E[n + 1] /\ E[n + 1] \in Seq(S)
  BY <1>2
<1>5. CASE n = 0
  <2>1. Flat(E, 0) = <<>>
    BY FlatZero
  <2>2. PICK f : Flattens(f, t, 1) /\ FlattenSeq(t) = f[1]
    <3>1. Len(t) = 1 /\ 1 \in Nat /\ 1 # 0
      BY <1>3, <1>5
    <3>2. QED
      BY <3>1, FlattenSeqValue
  <2>3. f[1] = t[1]
    <3>1. 1 \in 1 .. 1
      OBVIOUS
    <3>2. QED
      BY <2>2, <3>1, Zenon DEF Flattens
  <2>4. Flat(E, n + 1) = E[n + 1]
    BY <1>2, <1>4, <1>5, <2>2, <2>3 DEF Flat
  <2>5. QED
    BY <1>4, <1>5, <2>1, <2>4
<1>6. CASE n # 0
  <2>1. FlattenSeq(t) = FlattenSeq(s) \o t[n + 1]
    BY ONLY n \in Nat, <1>3, <1>6, FlattenSeqStep
  <2>2. Flat(E, n + 1) = Flat(E, n) \o E[n + 1]
    BY <1>1, <1>2, <1>4, <2>1 DEF Flat
  <2>3. ASSUME NEW p \in Seq(S), NEW q \in Seq(S)
        PROVE  p \o q \in Seq(S)
    OBVIOUS
  <2>4. Flat(E, n) \o E[n + 1] \in Seq(S)
    BY ONLY Flat(E, n) \in Seq(S), <1>4, <2>3
  <2>5. QED
    BY <2>2, <2>4
<1>7. QED
  BY <1>5, <1>6

(* The result is a list. *)
LEMMA FlatType ==
  ASSUME NEW S, NEW E, NEW m \in Nat, \A k \in 1 .. m : E[k] \in Seq(S)
  PROVE  Flat(E, m) \in Seq(S)
<1> DEFINE Bad == {n \in 0 .. m : Flat(E, n) \notin Seq(S)}
<1>1. ASSUME Bad # {} PROVE FALSE
  <2>1. PICK n \in Bad : \A y \in Bad : n <= y
    <3>1. Bad \in SUBSET Nat
      OBVIOUS
    <3> HIDE DEF Bad
    <3>2. QED
      BY <1>1, <3>1, LeastExists
  <2>2. n # 0
    <3>1. <<>> \in Seq(S)
      OBVIOUS
    <3>2. QED
      BY <2>1, <3>1, FlatZero
  <2>3. n - 1 \in Nat /\ Flat(E, n - 1) \in Seq(S) /\ (n - 1) + 1 = n
    BY <2>1, <2>2
  <2>4. \A k \in 1 .. (n - 1) + 1 : E[k] \in Seq(S)
    BY <2>1, <2>3
  <2>5. Flat(E, (n - 1) + 1) \in Seq(S)
    BY ONLY <2>3, <2>4, FlatStep
  <2>6. QED
    BY <2>1, <2>3, <2>5
<1>2. QED
  BY <1>1

(* The lists beyond the first m do not matter. *)
LEMMA FlatSame ==
  ASSUME NEW E, NEW F, NEW m \in Nat, \A k \in 1 .. m : E[k] = F[k]
  PROVE  Flat(E, m) = Flat(F, m)
<1>1. [k \in 1 .. m |-> E[k]] = [k \in 1 .. m |-> F[k]]
  OBVIOUS
<1>2. QED
  BY <1>1, Zenon DEF Flat

-----------------------------------------------------------------------------
(* what a line comes to when the files it may name come to g *)
LineOf(g, d, file, line) ==
  LET l == text[file][line]
  IN  IF l.kind = "token" THEN <<[file |-> file, line |-> line]>>
      ELSE IF d > 0 /\ l.file \in DOMAIN text THEN g[d - 1][l.file]
      ELSE <<>>

(* what the definition of Expanded asks of it, up to m *)
Expands(g, m) ==
  g = [d \in 0 .. m |->
        [file \in DOMAIN text |->
           FlattenSeq([line \in DOMAIN text[file] |-> LineOf(g, d, file, line)])]]

(* Such a function exists, whatever includes whatever: the depth ends it. *)
LEMMA ExpandsExists ==
  ASSUME NEW m \in Nat
  PROVE  \E g : Expands(g, m)
<1> DEFINE Bad == {n \in Nat : ~ \E g : Expands(g, n)}
<1>1. ASSUME Bad # {} PROVE FALSE
  <2>1. PICK n \in Bad : \A y \in Bad : n <= y
    BY <1>1, LeastExists
  <2>2. PICK g : n # 0 => Expands(g, n - 1)
    <3>1. CASE n # 0
      <4>1. n - 1 \in Nat /\ n - 1 \notin Bad
        BY <2>1, <3>1
      <4>2. QED
        BY <4>1
    <3>2. QED
      BY <3>1
  <2> DEFINE of(d) == [file \in DOMAIN text |->
                 FlattenSeq([line \in DOMAIN text[file] |-> LineOf(g, d, file, line)])]
             f == [d \in 0 .. n |-> IF d = n THEN of(d) ELSE g[d]]
  <2>3. \A d \in 0 .. n : d # n => g[d] = of(d)
    <3>1. SUFFICES ASSUME NEW d \in 0 .. n, d # n PROVE g[d] = of(d)
      OBVIOUS
    <3>2. Expands(g, n - 1) /\ d \in 0 .. n - 1
      BY <2>1, <2>2, <3>1
    <3>3. QED
      BY <3>2, Zenon DEF Expands
  <2>4. \A d \in 0 .. n : f[d] = of(d)
    BY <2>3
  <2>5. \A d \in 0 .. n : \A file, line : LineOf(f, d, file, line) = LineOf(g, d, file, line)
    <3>1. \A d \in 0 .. n : d > 0 => f[d - 1] = g[d - 1]
      BY <2>1
    <3> HIDE DEF f
    <3>2. QED
      BY <3>1 DEF LineOf
  <2>6. f = [d \in 0 .. n |-> f[d]]
    OBVIOUS
  <2>7. \A d \in 0 .. n : of(d) = [file \in DOMAIN text |->
                 FlattenSeq([line \in DOMAIN text[file] |-> LineOf(f, d, file, line)])]
    <3> HIDE DEF f
    <3>1. SUFFICES ASSUME NEW d \in 0 .. n, NEW file \in DOMAIN text
                   PROVE  [line \in DOMAIN text[file] |-> LineOf(g, d, file, line)]
                            = [line \in DOMAIN text[file] |-> LineOf(f, d, file, line)]
      BY Zenon
    <3>2. QED
      BY <2>5, Zenon
  <2> HIDE DEF f, of
  <2>8. Expands(f, n)
    BY <2>4, <2>6, <2>7, Zenon DEF Expands
  <2>9. QED
    BY <2>1, <2>8
<1>2. QED
  BY <1>1

LEMMA ExpandedExpands == Expands(Expanded, MaxOpen)
<1>1. \E g : Expands(g, MaxOpen)
  BY ExpandsExists, OpenAssumption
<1>2. Expanded = CHOOSE g : Expands(g, MaxOpen)
  BY Zenon DEF Expanded, Expands, LineOf
<1>3. QED
  BY <1>1, <1>2, Zenon

(* the tokens of the first n lines of a file, and what they name *)
Part(g, d, file) == [line \in DOMAIN text[file] |-> LineOf(g, d, file, line)]
Done(g, d, file, n) == Flat(Part(g, d, file), n)

LEMMA ExpandsWhole ==
  ASSUME LexerTypes, NEW g, Expands(g, MaxOpen), NEW d \in 0 .. MaxOpen, NEW file \in DOMAIN text
  PROVE  g[d][file] = Done(g, d, file, Len(text[file]))
<1>1. DOMAIN text[file] = 1 .. Len(text[file])
  BY LenProperties DEF LexerTypes
<1>2. g[d][file] = FlattenSeq([line \in DOMAIN text[file] |-> LineOf(g, d, file, line)])
  <2>1. g[d] = [f \in DOMAIN text |->
                 FlattenSeq([line \in DOMAIN text[f] |-> LineOf(g, d, f, line)])]
    BY Zenon DEF Expands
  <2>2. QED
    BY <2>1, Zenon
<1>3. [k \in 1 .. Len(text[file]) |-> Part(g, d, file)[k]]
        = [line \in DOMAIN text[file] |-> LineOf(g, d, file, line)]
  BY <1>1, Zenon DEF Part
<1>4. QED
  BY <1>2, <1>3, Zenon DEF Done, Flat

(* lists of places, if the files named are *)
LEMMA LineOfType ==
  ASSUME LexerTypes, NEW g, NEW d \in 0 .. MaxOpen, NEW file \in DOMAIN text,
         d > 0 => \A f \in DOMAIN text : g[d - 1][f] \in Seq(Place),
         NEW line \in 1 .. Len(text[file])
  PROVE  Part(g, d, file)[line] = LineOf(g, d, file, line) /\ LineOf(g, d, file, line) \in Seq(Place)
<1>1. DOMAIN text[file] = 1 .. Len(text[file]) /\ Len(text[file]) \in Nat
  BY LenProperties DEF LexerTypes
<1>2. PICK t \in Place : t = [file |-> file, line |-> line]
  <2>1. file \in Files /\ line \in Nat
    BY <1>1 DEF LexerTypes
  <2>2. QED
    BY <2>1 DEF Place
<1>3. <<t>> \in Seq(Place) /\ <<>> \in Seq(Place)
  OBVIOUS
<1>4. LineOf(g, d, file, line) \in Seq(Place)
  BY <1>2, <1>3 DEF LineOf
<1>5. QED
  BY <1>1, <1>4, Zenon DEF Part

LEMMA ExpandsType ==
  ASSUME LexerTypes, NEW g, Expands(g, MaxOpen)
  PROVE  \A d \in 0 .. MaxOpen : \A file \in DOMAIN text : g[d][file] \in Seq(Place)
<1> DEFINE Bad == {d \in 0 .. MaxOpen : ~ \A file \in DOMAIN text : g[d][file] \in Seq(Place)}
<1>1. ASSUME Bad # {} PROVE FALSE
  <2>1. PICK d \in Bad : \A y \in Bad : d <= y
    <3>1. Bad \in SUBSET Nat
      BY OpenAssumption
    <3> HIDE DEF Bad
    <3>2. QED
      BY <1>1, <3>1, LeastExists
  <2>2. d \in 0 .. MaxOpen
    BY <2>1
  <2>3. PICK file \in DOMAIN text : g[d][file] \notin Seq(Place)
    BY <2>1
  <2>4. d > 0 => d - 1 \in 0 .. MaxOpen /\ d - 1 \notin Bad
    BY <2>1, <2>2, OpenAssumption
  <2>5. d > 0 => \A f \in DOMAIN text : g[d - 1][f] \in Seq(Place)
    BY <2>4
  <2>6. Len(text[file]) \in Nat
    BY LenProperties DEF LexerTypes
  <2>7. \A line \in 1 .. Len(text[file]) : Part(g, d, file)[line] \in Seq(Place)
    BY <2>2, <2>5, LineOfType
  <2>8. Flat(Part(g, d, file), Len(text[file])) \in Seq(Place)
    BY ONLY <2>6, <2>7, FlatType
  <2>9. QED
    BY <2>2, <2>3, <2>8, ExpandsWhole DEF Done
<1>2. QED
  BY <1>1

(* One line is read after the other. *)
LEMMA DoneFacts ==
  ASSUME LexerTypes, NEW g, Expands(g, MaxOpen), NEW d \in 0 .. MaxOpen, NEW file \in DOMAIN text
  PROVE  /\ Done(g, d, file, 0) = <<>>
         /\ \A n \in 0 .. Len(text[file]) : Done(g, d, file, n) \in Seq(Place)
         /\ \A n \in 1 .. Len(text[file]) :
              /\ LineOf(g, d, file, n) \in Seq(Place)
              /\ Done(g, d, file, n) = Done(g, d, file, n - 1) \o LineOf(g, d, file, n)
<1>1. d > 0 => \A f \in DOMAIN text : g[d - 1][f] \in Seq(Place)
  <2>1. d > 0 => d - 1 \in 0 .. MaxOpen
    BY OpenAssumption
  <2>2. QED
    BY <2>1, ExpandsType
<1>2. PICK E : E = Part(g, d, file)
  OBVIOUS
<1>3. PICK m \in Nat : m = Len(text[file])
  BY LenProperties DEF LexerTypes
<1>4. \A line \in 1 .. m : E[line] = LineOf(g, d, file, line) /\ E[line] \in Seq(Place)
  <2>1. \A line \in 1 .. Len(text[file]) :
          /\ Part(g, d, file)[line] = LineOf(g, d, file, line)
          /\ LineOf(g, d, file, line) \in Seq(Place)
    BY <1>1, LineOfType
  <2>2. QED
    BY <1>2, <1>3, <2>1
<1>5. ASSUME NEW n \in 0 .. m PROVE Flat(E, n) \in Seq(Place)
  <2>1. n \in Nat /\ \A k \in 1 .. n : E[k] \in Seq(Place)
    BY <1>3, <1>4
  <2>2. QED
    BY ONLY <2>1, FlatType
<1>6. ASSUME NEW n \in 1 .. m PROVE Flat(E, n) = Flat(E, n - 1) \o E[n]
  <2>1. n - 1 \in Nat /\ n - 1 \in 0 .. m /\ (n - 1) + 1 = n
    BY <1>3
  <2>2. \A k \in 1 .. (n - 1) + 1 : E[k] \in Seq(Place)
    BY <1>3, <1>4, <2>1
  <2>3. Flat(E, (n - 1) + 1) = Flat(E, n - 1) \o E[(n - 1) + 1]
    BY ONLY <1>5, <2>1, <2>2, FlatStep
  <2>4. QED
    BY <2>1, <2>3
<1>7. QED
  BY <1>2, <1>3, <1>4, <1>5, <1>6, FlatZero DEF Done

(* A list more is added to what the lists come to. *)
LEMMA FlatLast ==
  ASSUME NEW S, NEW n \in Nat, n # 0, NEW E, \A k \in 1 .. n : E[k] \in Seq(S)
  PROVE  /\ Flat(E, n - 1) \in Seq(S) /\ Flat(E, n) \in Seq(S)
         /\ Flat(E, n) = Flat(E, n - 1) \o E[n]
<1>1. n - 1 \in Nat /\ (n - 1) + 1 = n
  OBVIOUS
<1>2. \A k \in 1 .. n - 1 : E[k] \in Seq(S)
  OBVIOUS
<1>3. Flat(E, n - 1) \in Seq(S)
  BY ONLY <1>1, <1>2, FlatType
<1>4. \A k \in 1 .. (n - 1) + 1 : E[k] \in Seq(S)
  BY <1>1
<1>5. /\ Flat(E, (n - 1) + 1) \in Seq(S)
      /\ Flat(E, (n - 1) + 1) = Flat(E, n - 1) \o E[(n - 1) + 1]
  BY ONLY <1>1, <1>3, <1>4, FlatStep
<1>6. QED
  BY <1>1, <1>3, <1>5

(* What the last list gets more the whole gets more. *)
LEMMA FlatLonger ==
  ASSUME NEW S, NEW n \in Nat, n # 0, NEW E, \A k \in 1 .. n : E[k] \in Seq(S),
         NEW F, \A k \in 1 .. n - 1 : F[k] = E[k],
         NEW t \in Seq(S), F[n] = E[n] \o t
  PROVE  Flat(F, n) = Flat(E, n) \o t
<1>1. PICK p : p = Flat(E, n - 1)
  OBVIOUS
<1>2. PICK e : e = E[n]
  OBVIOUS
<1>3. p \in Seq(S) /\ e \in Seq(S) /\ Flat(E, n) = p \o e
  <2>1. n \in 1 .. n
    OBVIOUS
  <2>2. e \in Seq(S)
    BY <1>2, <2>1
  <2>3. /\ Flat(E, n - 1) \in Seq(S)
        /\ Flat(E, n) = Flat(E, n - 1) \o E[n]
    BY FlatLast
  <2>4. QED
    BY ONLY <1>1, <1>2, <2>2, <2>3
<1>4. e \o t \in Seq(S) /\ (p \o e) \o t = p \o (e \o t)
  BY ONLY <1>3, t \in Seq(S), ConcatAssociative, ConcatProperties
<1>5. \A k \in 1 .. n : F[k] \in Seq(S)
  <2>1. F[n] \in Seq(S)
    BY <1>2, <1>4
  <2>2. \A k \in 1 .. n : k = n \/ k \in 1 .. n - 1
    OBVIOUS
  <2>3. \A k \in 1 .. n - 1 : F[k] \in Seq(S)
    OBVIOUS
  <2>4. QED
    BY ONLY <2>1, <2>2, <2>3
<1>6. Flat(F, n) = Flat(F, n - 1) \o F[n]
  BY <1>5, FlatLast
<1>7. Flat(F, n - 1) = p
  <2>1. n - 1 \in Nat
    OBVIOUS
  <2>2. QED
    BY <1>1, <2>1, FlatSame
<1>8. QED
  BY <1>2, <1>3, <1>4, <1>6, <1>7

-----------------------------------------------------------------------------
(* lines of a buffer that have been dealt with: when the rest of a directive
   is being read, the file it names has been *)
Covered(b, st, k) == b[k].next - (IF st = "incl" /\ k = Len(b) THEN 0 ELSE 1)

SoFar(g, b, st) ==
  [k \in 1 .. Len(b) |-> Done(g, MaxOpen - k, b[k].file, Covered(b, st, k))]

(* every buffer stands at the directive that names the file of the next *)
Nested(b, st) ==
  /\ b[1].file = Root
  /\ \A k \in 1 .. Len(b) : b[k].next <= Len(text[b[k].file]) + 1
  /\ \A k \in 1 .. Len(b) : k < Len(b) \/ st = "incl" =>
       /\ b[k].next <= Len(text[b[k].file])
       /\ text[b[k].file][b[k].next].kind = "include"
  /\ \A k \in 1 .. Len(b) - 1 : text[b[k].file][b[k].next].file = b[k + 1].file

(* The tokens the parser has been given are those of the lines read, file by
   file from the outermost, with what has been included in between. *)
ReadInv == \A g : Expands(g, MaxOpen) => tokens = Flat(SoFar(g, buffers, start), Len(buffers))

DepthInv == opened \in Nat /\ Len(buffers) <= opened /\ opened <= MaxOpen

EndInv == /\ pc = "eof" => Len(buffers) = 1 /\ AtEnd /\ start = "INITIAL"
          /\ parse = "parsed" => pc = "eof" /\ inparser = <<>>

ProgressInv == /\ start \in {"INITIAL", "incl"} /\ Nested(buffers, start)
               /\ DepthInv /\ ReadInv /\ EndInv

LEMMA SoFarTypes ==
  ASSUME LexerTypes, NEW g, Expands(g, MaxOpen), NEW b \in Seq(Buffer), NEW st,
         Nested(b, st), Len(b) <= MaxOpen, NEW k \in 1 .. Len(b)
  PROVE  /\ MaxOpen - k \in 0 .. MaxOpen
         /\ b[k].file \in DOMAIN text /\ b[k].next \in Nat \ {0}
         /\ Covered(b, st, k) \in 0 .. Len(text[b[k].file])
         /\ SoFar(g, b, st)[k] = Done(g, MaxOpen - k, b[k].file, Covered(b, st, k))
         /\ SoFar(g, b, st)[k] \in Seq(Place)
<1>1. Len(b) \in Nat /\ b[k] \in Buffer
  BY LenProperties, ElementOfSeq
<1>2. MaxOpen - k \in 0 .. MaxOpen
  BY <1>1, OpenAssumption
<1>3. b[k].file \in DOMAIN text /\ b[k].next \in Nat \ {0}
  BY <1>1 DEF Buffer
<1>4. Len(text[b[k].file]) \in Nat
  BY <1>3, LenProperties DEF LexerTypes
<1>5. Covered(b, st, k) \in 0 .. Len(text[b[k].file])
  <2>1. b[k].next <= Len(text[b[k].file]) + 1
    BY DEF Nested
  <2>2. st = "incl" => b[k].next <= Len(text[b[k].file])
    BY DEF Nested
  <2>3. QED
    BY <1>3, <1>4, <2>1, <2>2 DEF Covered
<1>6. SoFar(g, b, st)[k] = Done(g, MaxOpen - k, b[k].file, Covered(b, st, k))
  BY Zenon DEF SoFar
<1>7. QED
  BY <1>2, <1>3, <1>5, <1>6, DoneFacts

-----------------------------------------------------------------------------
LEMMA LineBuffers ==
  ASSUME LexerTypes, NextLine
  PROVE  /\ Len(buffers') = Len(buffers) /\ Len(buffers) \in Nat /\ Len(buffers) # 0
         /\ buffers'[Len(buffers)].file = Top.file
         /\ buffers'[Len(buffers)].next = Top.next + 1
         /\ \A k \in 1 .. Len(buffers) : k # Len(buffers) => buffers'[k] = buffers[k]
<1>1. PICK n \in Nat : n = Len(buffers) /\ n # 0
  BY EmptySeq, LenProperties DEF LexerTypes
<1>2. PICK b : b = buffers[n]
  OBVIOUS
<1>3. b \in Buffer /\ Top = b
  BY <1>1, <1>2, HereIsLine
<1>4. PICK c : c = [b EXCEPT !.next = b.next + 1]
  OBVIOUS
<1>5. c.file = b.file /\ c.next = b.next + 1 /\ c \in Buffer
  BY <1>3, <1>4 DEF Buffer
<1>6. buffers' = [buffers EXCEPT ![n] = c]
  BY <1>1, <1>2, <1>4 DEF NextLine
<1>7. Len(buffers') = n /\ \A k \in 1 .. n : buffers'[k] = IF k = n THEN c ELSE buffers[k]
  BY <1>1, <1>5, <1>6, ExceptSeq DEF LexerTypes
<1>8. QED
  BY <1>1, <1>3, <1>5, <1>7

(* After a line the stack is nested as before, if the line was no directive
   or is the one whose rest has been read. *)
LEMMA LineNested ==
  ASSUME LexerTypes, NextLine, Nested(buffers, start), ~AtEnd
  PROVE  Nested(buffers', "INITIAL")
<1>1. PICK n \in Nat : n = Len(buffers) /\ n # 0
  BY LineBuffers
<1>2. PICK b : b = buffers
  OBVIOUS
<1>3. PICK c : c = buffers'
  OBVIOUS
<1>4. /\ Len(c) = n /\ c[n].file = b[n].file /\ c[n].next = b[n].next + 1
      /\ \A k \in 1 .. n : k # n => c[k] = b[k]
      /\ b[n].next <= Len(text[b[n].file])
  <2>1. Top = b[n]
    BY <1>1, <1>2 DEF Top, Last
  <2>2. b[n].next \in Nat /\ Len(text[b[n].file]) \in Nat
    BY <2>1, HereIsLine, LenProperties DEF LexerTypes, Buffer
  <2>3. b[n].next <= Len(text[b[n].file])
    BY <2>1, <2>2 DEF AtEnd
  <2>4. QED
    BY <1>1, <1>2, <1>3, <2>1, <2>3, LineBuffers
<1>5. /\ b[1].file = Root
      /\ \A k \in 1 .. n : b[k].next <= Len(text[b[k].file]) + 1
      /\ \A k \in 1 .. n : k < n => /\ b[k].next <= Len(text[b[k].file])
                                    /\ text[b[k].file][b[k].next].kind = "include"
      /\ \A k \in 1 .. n - 1 : text[b[k].file][b[k].next].file = b[k + 1].file
  BY <1>1, <1>2, Zenon DEF Nested
<1>6. \A k \in 1 .. n : c[k].file = b[k].file
  BY <1>4
<1>7. c[1].file = Root
  BY <1>1, <1>5, <1>6
<1>8. \A k \in 1 .. n : c[k].next <= Len(text[c[k].file]) + 1
  <2>1. SUFFICES ASSUME NEW k \in 1 .. n PROVE c[k].next <= Len(text[c[k].file]) + 1
    OBVIOUS
  <2>2. CASE k = n
    <3>1. b[n].next + 1 <= Len(text[b[n].file]) + 1
      <4>1. b[n] \in Buffer
        BY <1>1, <1>2, HereIsLine
      <4>2. b[n].next \in Nat /\ Len(text[b[n].file]) \in Nat
        BY <4>1, LenProperties DEF LexerTypes, Buffer
      <4>3. QED
        BY <1>4, <4>2
    <3>2. QED
      BY <1>4, <2>2, <3>1
  <2>3. CASE k # n
    BY <1>4, <1>5, <2>3
  <2>4. QED
    BY <2>2, <2>3
<1>9. \A k \in 1 .. n : k < n => /\ c[k].next <= Len(text[c[k].file])
                                 /\ text[c[k].file][c[k].next].kind = "include"
  BY <1>1, <1>4, <1>5
<1>10. \A k \in 1 .. n - 1 : text[c[k].file][c[k].next].file = c[k + 1].file
  <2>1. SUFFICES ASSUME NEW k \in 1 .. n - 1
                 PROVE  text[c[k].file][c[k].next].file = c[k + 1].file
    OBVIOUS
  <2>2. k \in 1 .. n /\ k # n /\ k + 1 \in 1 .. n
    BY <1>1
  <2>3. QED
    BY <1>4, <1>5, <1>6, <2>2
<1>11. \A k \in 1 .. n : ~ (k < n) => k = n
  BY <1>1
<1>12. QED
  BY <1>3, <1>4, <1>7, <1>8, <1>9, <1>10 DEF Nested

(* What the files come to depends on their texts only. *)
LEMMA ExpandsConstant ==
  ASSUME UNCHANGED text
  PROVE  \A g : Expands(g, MaxOpen)' <=> Expands(g, MaxOpen)
BY DEF Expands, LineOf

LEMMA NestedConstant ==
  ASSUME UNCHANGED text
  PROVE  \A b, st : Nested(b, st)' <=> Nested(b, st)
BY DEF Nested

LEMMA SoFarConstant ==
  ASSUME UNCHANGED text
  PROVE  \A g, b, st : SoFar(g, b, st)' = SoFar(g, b, st)
BY DEF SoFar, Covered, Done, Flat, Part, LineOf

LEMMA TokenReads ==
  ASSUME LexerInv, Nested(buffers, start), DepthInv, ReadInv, Token
  PROVE  Nested(buffers', start') /\ DepthInv' /\ ReadInv'
<1>1. /\ LexerTypes /\ ~AtEnd /\ Here.kind = "token" /\ NextLine
      /\ start = "INITIAL" /\ start' = start /\ UNCHANGED <<text, opened>>
  BY DEF LexerInv, Token
<1>2. Nested(buffers', start')
  BY <1>1, LineNested
<1>3. PICK n \in Nat : n = Len(buffers) /\ n # 0 /\ n <= MaxOpen
  <2>1. Len(buffers) \in Nat /\ Len(buffers) # 0
    BY <1>1, LineBuffers
  <2>2. QED
    BY <2>1, OpenAssumption DEF DepthInv
<1>4. DepthInv'
  BY <1>1, LineBuffers DEF DepthInv
<1>5. ASSUME NEW g, Expands(g, MaxOpen)
      PROVE  tokens' = Flat(SoFar(g, buffers', start'), Len(buffers'))
  <2>1. PICK E : E = SoFar(g, buffers, start)
    OBVIOUS
  <2>2. PICK F : F = SoFar(g, buffers', start')
    OBVIOUS
  <2>3. \A k \in 1 .. n : E[k] \in Seq(Place)
    BY <1>1, <1>3, <1>5, <2>1, SoFarTypes DEF LexerTypes
  <2>4. tokens = Flat(E, n)
    BY <1>3, <1>5, <2>1 DEF ReadInv
  <2>5. PICK t \in Place : t = [file |-> Top.file, line |-> Top.next] /\ tokens' = Append(tokens, t)
    BY TokenKeepsInv
  <2>6. \A k \in 1 .. n - 1 : F[k] = E[k]
    <3>1. SUFFICES ASSUME NEW k \in 1 .. n - 1 PROVE F[k] = E[k]
      OBVIOUS
    <3>2. Len(buffers') = n /\ k \in 1 .. n /\ k < n
      BY <1>1, <1>3, LineBuffers
    <3>3. buffers'[k] = buffers[k]
      BY <1>1, <1>3, <3>2, LineBuffers
    <3>4. /\ k \in 1 .. Len(buffers) /\ k \in 1 .. Len(buffers') /\ buffers[k] = buffers'[k]
          /\ k < Len(buffers) /\ k < Len(buffers') /\ Len(buffers) \in Nat /\ Len(buffers') \in Nat
      BY <1>3, <3>2, <3>3
    <3>5. SoFar(g, buffers, start)[k] = SoFar(g, buffers', start')[k]
      <4>1. Covered(buffers, start, k) = Covered(buffers', start', k)
        BY <3>4 DEF Covered
      <4>2. QED
        BY <3>4, <4>1, Zenon DEF SoFar
    <3>6. QED
      BY <2>1, <2>2, <3>5
  <2>7. F[n] = E[n] \o <<t>>
    <3>1. PICK b : b = buffers[n]
      OBVIOUS
    <3>2. n \in 1 .. n /\ b = Top /\ b \in Buffer
      BY <1>1, <1>3, <3>1, HereIsLine
    <3>3. /\ MaxOpen - n \in 0 .. MaxOpen /\ b.file \in DOMAIN text
          /\ b.next \in Nat \ {0} /\ Len(text[b.file]) \in Nat /\ b.next <= Len(text[b.file])
      <4>1. b.file \in DOMAIN text /\ b.next \in Nat \ {0}
        BY <3>2 DEF Buffer
      <4>2. Len(text[b.file]) \in Nat
        BY <1>1, <4>1, LenProperties DEF LexerTypes
      <4>3. b.next <= Len(text[b.file])
        BY <1>1, <3>2, <4>1, <4>2 DEF AtEnd
      <4>4. QED
        BY <1>3, <4>1, <4>2, <4>3, OpenAssumption
    <3>4. E[n] = Done(g, MaxOpen - n, b.file, b.next - 1)
      BY <1>1, <1>3, <2>1, <3>1, <3>2, Zenon DEF SoFar, Covered
    <3>5. /\ Len(buffers') = n /\ buffers'[n].file = b.file
          /\ buffers'[n].next - 1 = b.next
      BY <1>1, <1>3, <3>2, <3>3, LineBuffers
    <3>6. F[n] = Done(g, MaxOpen - n, b.file, b.next)
      <4>1. Covered(buffers', start', n) = b.next
        BY <1>1, <3>5 DEF Covered
      <4>2. QED
        BY <2>2, <3>2, <3>5, <4>1, Zenon DEF SoFar
    <3>7. LineOf(g, MaxOpen - n, b.file, b.next) = <<t>>
      BY <1>1, <2>5, <3>2 DEF LineOf, Here
    <3>8. b.next \in 1 .. Len(text[b.file])
      BY <3>3
    <3>9. Done(g, MaxOpen - n, b.file, b.next)
            = Done(g, MaxOpen - n, b.file, b.next - 1) \o LineOf(g, MaxOpen - n, b.file, b.next)
      BY <1>1, <1>5, <3>3, <3>8, DoneFacts
    <3>10. QED
      BY <3>4, <3>6, <3>7, <3>9
  <2>8. tokens \in Seq(Place)
    BY <1>1 DEF LexerTypes
  <2>9. Flat(F, n) = Flat(E, n) \o <<t>>
    <3>1. PICK q \in Seq(Place) : q = <<t>>
      <4>1. <<t>> \in Seq(Place)
        BY ONLY t \in Place
      <4>2. QED
        BY <4>1
    <3>2. F[n] = E[n] \o q
      BY <2>7, <3>1
    <3>3. Flat(F, n) = Flat(E, n) \o q
      <4>1. n # 0
        BY <1>3
      <4>2. QED
        BY ONLY n \in Nat, <4>1, <2>3, <2>6, <3>2, q \in Seq(Place), FlatLonger, Zenon
    <3>4. QED
      BY <3>1, <3>3
  <2>10. Append(tokens, t) = tokens \o <<t>>
    BY <2>8, AppendIsConcat
  <2>11. QED
    BY <1>1, <1>3, <2>2, <2>4, <2>5, <2>9, <2>10, LineBuffers
<1>6. ReadInv'
  <2>1. \A g : Expands(g, MaxOpen)' => Expands(g, MaxOpen)
    BY <1>1, ExpandsConstant
  <2>2. \A g, b, st : SoFar(g, b, st)' = SoFar(g, b, st)
    BY <1>1, SoFarConstant
  <2>3. QED
    BY <1>5, <2>1, <2>2 DEF ReadInv
<1>7. QED
  BY <1>2, <1>4, <1>6

LEMMA RestReads ==
  ASSUME LexerInv, Nested(buffers, start), DepthInv, ReadInv, RestOfLine
  PROVE  Nested(buffers', start') /\ DepthInv' /\ ReadInv'
<1>1. /\ LexerTypes /\ NextLine /\ start = "incl" /\ start' = "INITIAL"
      /\ UNCHANGED <<text, opened, tokens>>
  BY DEF LexerInv, RestOfLine
<1>2. PICK n \in Nat : n = Len(buffers) /\ n # 0 /\ n <= MaxOpen
  <2>1. Len(buffers) \in Nat /\ Len(buffers) # 0
    BY <1>1, LineBuffers
  <2>2. QED
    BY <2>1, OpenAssumption DEF DepthInv
<1>3. PICK b : b = buffers[n]
  OBVIOUS
<1>4. n \in 1 .. n /\ b = Top /\ b \in Buffer
  BY <1>1, <1>2, <1>3, HereIsLine
<1>5. b.next \in Nat /\ Len(text[b.file]) \in Nat /\ b.next <= Len(text[b.file])
  <2>1. b.file \in DOMAIN text /\ b.next \in Nat
    BY <1>4 DEF Buffer
  <2>2. Len(text[b.file]) \in Nat
    BY <1>1, <2>1, LenProperties DEF LexerTypes
  <2>3. b.next <= Len(text[b.file])
    BY <1>1, <1>2, <1>3, <1>4 DEF Nested
  <2>4. QED
    BY <2>1, <2>2, <2>3
<1>6. ~AtEnd
  BY <1>4, <1>5 DEF AtEnd
<1>7. Nested(buffers', start')
  BY <1>1, <1>6, LineNested
<1>8. DepthInv'
  BY <1>1, LineBuffers DEF DepthInv
<1>9. ASSUME NEW g, Expands(g, MaxOpen)
      PROVE  tokens' = Flat(SoFar(g, buffers', start'), Len(buffers'))
  <2>1. PICK E : E = SoFar(g, buffers, start)
    OBVIOUS
  <2>2. PICK F : F = SoFar(g, buffers', start')
    OBVIOUS
  <2>3. Len(buffers') = n
    BY <1>1, <1>2, LineBuffers
  <2>4. \A k \in 1 .. n : k # n => F[k] = E[k]
    <3>1. SUFFICES ASSUME NEW k \in 1 .. n, k # n PROVE F[k] = E[k]
      OBVIOUS
    <3>2. k < n
      BY <3>1
    <3>3. buffers'[k] = buffers[k]
      BY <1>1, <1>2, <3>1, LineBuffers
    <3>4. /\ k \in 1 .. Len(buffers) /\ k \in 1 .. Len(buffers') /\ buffers[k] = buffers'[k]
          /\ k < Len(buffers) /\ k < Len(buffers') /\ Len(buffers) \in Nat /\ Len(buffers') \in Nat
      BY <1>2, <2>3, <3>2, <3>3
    <3>5. SoFar(g, buffers, start)[k] = SoFar(g, buffers', start')[k]
      <4>1. Covered(buffers, start, k) = Covered(buffers', start', k)
        BY <3>4 DEF Covered
      <4>2. QED
        BY <3>4, <4>1, Zenon DEF SoFar
    <3>6. QED
      BY <2>1, <2>2, <3>5
  <2>5. F[n] = E[n]
    <3>1. Covered(buffers, start, n) = b.next
      BY <1>1, <1>2, <1>3, <1>5 DEF Covered
    <3>2. buffers'[n].file = b.file /\ buffers'[n].next = b.next + 1
      BY <1>1, <1>2, <1>4, LineBuffers
    <3>3. Covered(buffers', start', n) = b.next
      BY <1>1, <1>5, <3>2 DEF Covered
    <3>4. E[n] = Done(g, MaxOpen - n, b.file, b.next)
      BY <1>2, <1>3, <1>4, <2>1, <3>1, Zenon DEF SoFar
    <3>5. F[n] = Done(g, MaxOpen - n, b.file, b.next)
      BY <1>4, <2>2, <2>3, <3>2, <3>3, Zenon DEF SoFar
    <3>6. QED
      BY <3>4, <3>5
  <2>6. \A k \in 1 .. n : E[k] = F[k]
    BY <2>4, <2>5
  <2>7. Flat(E, n) = Flat(F, n)
    BY ONLY n \in Nat, <2>6, FlatSame
  <2>8. tokens = Flat(E, n)
    BY <1>2, <1>9, <2>1 DEF ReadInv
  <2>9. QED
    BY <1>1, <2>2, <2>3, <2>7, <2>8
<1>10. ReadInv'
  <2>1. \A g : Expands(g, MaxOpen)' => Expands(g, MaxOpen)
    BY <1>1, ExpandsConstant
  <2>2. \A g, c, st : SoFar(g, c, st)' = SoFar(g, c, st)
    BY <1>1, SoFarConstant
  <2>3. QED
    BY <1>9, <2>1, <2>2 DEF ReadInv
<1>11. QED
  BY <1>7, <1>8, <1>10

LEMMA IncludeReads ==
  ASSUME LexerInv, LexerTypes', Nested(buffers, start), DepthInv, ReadInv, Include
  PROVE  Nested(buffers', start') /\ DepthInv' /\ ReadInv'
<1>1. /\ LexerTypes /\ ~AtEnd /\ Here.kind = "include" /\ Here.file \in DOMAIN text
      /\ opened # MaxOpen /\ opened' = opened + 1
      /\ start = "INITIAL" /\ start' = start /\ UNCHANGED <<text, tokens>>
  BY DEF LexerInv, Include, Unopenable
<1>2. PICK n \in Nat : n = Len(buffers) /\ n # 0 /\ n + 1 <= MaxOpen
  <2>1. Len(buffers) \in Nat /\ Len(buffers) # 0
    BY <1>1, EmptySeq, LenProperties DEF LexerTypes
  <2>2. QED
    BY <1>1, <2>1, OpenAssumption DEF DepthInv
<1>3. PICK b : b = buffers
  OBVIOUS
<1>4. PICK c : c = buffers'
  OBVIOUS
<1>5. PICK e \in Buffer : e = [file |-> Here.file, next |-> 1]
  <2>1. PICK f \in DOMAIN text : f = Here.file
    BY <1>1
  <2>2. [file |-> f, next |-> 1] \in Buffer
    BY SMT DEF Buffer
  <2>3. QED
    BY <2>1, <2>2
<1>6. Len(c) = n + 1 /\ c[n + 1] = e /\ \A k \in 1 .. n : c[k] = b[k]
  <2>1. c = Append(b, e)
    BY <1>3, <1>4, <1>5 DEF Include
  <2>2. b \in Seq(Buffer) /\ Len(b) = n
    BY <1>1, <1>2, <1>3 DEF LexerTypes
  <2>3. QED
    BY ONLY e \in Buffer, <2>1, <2>2, AppendProperties
<1>7. b \in Seq(Buffer) /\ c \in Seq(Buffer) /\ Len(b) = n
  BY <1>1, <1>2, <1>3, <1>4 DEF LexerTypes, Buffer
<1>8. e.file = Here.file /\ e.next = 1 /\ e.file \in DOMAIN text
  BY <1>1, <1>5
<1>9. /\ b[n].next <= Len(text[b[n].file]) /\ text[b[n].file][b[n].next] = Here
  <2>1. Top = b[n] /\ b[n].next \in Nat /\ Len(text[b[n].file]) \in Nat
    <3>1. Top = b[n] /\ b[n] \in Buffer
      BY <1>1, <1>2, <1>3, HereIsLine
    <3>2. QED
      BY <1>1, <3>1, LenProperties DEF LexerTypes, Buffer
  <2>2. QED
    BY <1>1, <2>1 DEF AtEnd, Here
<1>10. /\ b[1].file = Root
       /\ \A k \in 1 .. n : b[k].next <= Len(text[b[k].file]) + 1
       /\ \A k \in 1 .. n : k < n => /\ b[k].next <= Len(text[b[k].file])
                                     /\ text[b[k].file][b[k].next].kind = "include"
       /\ \A k \in 1 .. n - 1 : text[b[k].file][b[k].next].file = b[k + 1].file
  BY <1>2, <1>3, Zenon DEF Nested
<1>11. Nested(c, "INITIAL")
  <2>1. \A k \in 1 .. n : k < n \/ k = n
    OBVIOUS
  <2>2. \A k \in 1 .. n + 1 : k \in 1 .. n \/ (k = n + 1 /\ ~ (k < n + 1))
    OBVIOUS
  <2>3. Len(text[e.file]) \in Nat
    BY <1>1, <1>8, LenProperties DEF LexerTypes
  <2>4. c[1].file = Root
    BY <1>2, <1>6, <1>10
  <2>5. \A k \in 1 .. n + 1 : c[k].next <= Len(text[c[k].file]) + 1
    <3>1. 1 <= Len(text[e.file]) + 1
      BY <2>3
    <3>2. QED
      BY <1>6, <1>8, <1>10, <2>2, <3>1
  <2>6. \A k \in 1 .. n + 1 : k < n + 1 =>
          /\ c[k].next <= Len(text[c[k].file])
          /\ text[c[k].file][c[k].next].kind = "include"
    BY <1>1, <1>6, <1>9, <1>10, <2>1, <2>2
  <2>7. \A k \in 1 .. n : text[c[k].file][c[k].next].file = c[k + 1].file
    <3>1. SUFFICES ASSUME NEW k \in 1 .. n
                   PROVE  text[c[k].file][c[k].next].file = c[k + 1].file
      OBVIOUS
    <3>2. CASE k = n
      BY <1>6, <1>8, <1>9, <3>2
    <3>3. CASE k < n
      <4>1. k \in 1 .. n - 1 /\ k + 1 \in 1 .. n
        BY <3>3
      <4>2. QED
        BY <1>6, <1>10, <4>1
    <3>4. QED
      BY <2>1, <3>2, <3>3
  <2>8. (n + 1) - 1 = n
    OBVIOUS
  <2>9. QED
    BY ONLY <1>6, <2>4, <2>5, <2>6, <2>7, <2>8, SMT DEF Nested
<1>12. DepthInv'
  BY <1>1, <1>2, <1>4, <1>6, OpenAssumption DEF DepthInv
<1>13. ASSUME NEW g, Expands(g, MaxOpen)
       PROVE  tokens' = Flat(SoFar(g, c, "INITIAL"), n + 1)
  <2>1. PICK E : E = SoFar(g, b, "INITIAL")
    OBVIOUS
  <2>2. PICK F : F = SoFar(g, c, "INITIAL")
    OBVIOUS
  <2>3. \A k \in 1 .. n : F[k] = E[k]
    <3>1. SUFFICES ASSUME NEW k \in 1 .. n PROVE F[k] = E[k]
      OBVIOUS
    <3>2. k \in 1 .. Len(b) /\ k \in 1 .. Len(c) /\ b[k] = c[k]
      BY <1>6, <1>7
    <3>3. Covered(b, "INITIAL", k) = Covered(c, "INITIAL", k)
      BY <3>2 DEF Covered
    <3>4. QED
      BY <2>1, <2>2, <3>2, <3>3, Zenon DEF SoFar
  <2>4. \A k \in 1 .. n + 1 : F[k] \in Seq(Place)
    BY <1>1, <1>2, <1>6, <1>7, <1>11, <1>13, <2>2, SoFarTypes
  <2>5. F[n + 1] = <<>>
    <3>1. n + 1 \in 1 .. Len(c)
      BY <1>6
    <3>2. Covered(c, "INITIAL", n + 1) = 0
      BY <1>6, <1>8 DEF Covered
    <3>3. F[n + 1] = Done(g, MaxOpen - (n + 1), e.file, 0)
      BY <1>6, <2>2, <3>1, <3>2, Zenon DEF SoFar
    <3>4. QED
      BY <3>3, FlatZero DEF Done
  <2>6. tokens = Flat(E, n)
    BY <1>1, <1>2, <1>3, <1>13, <2>1 DEF ReadInv
  <2>7. Flat(E, n) = Flat(F, n)
    <3>1. \A k \in 1 .. n : E[k] = F[k]
      BY <2>3
    <3>2. QED
      BY ONLY n \in Nat, <3>1, FlatSame
  <2>8. PICK m \in Nat : m = n + 1 /\ m # 0 /\ m - 1 = n
    OBVIOUS
  <2>9. Flat(F, m - 1) \in Seq(Place) /\ Flat(F, m) = Flat(F, m - 1) \o F[m]
    <3>1. \A k \in 1 .. m : F[k] \in Seq(Place)
      BY <2>4, <2>8
    <3>2. m # 0
      BY <2>8
    <3>3. QED
      BY ONLY m \in Nat, <3>1, <3>2, FlatLast, Zenon
  <2>10. Flat(F, m - 1) \o <<>> = Flat(F, m - 1)
    BY <2>9, ConcatEmptySeq
  <2>11. QED
    BY <1>1, <2>2, <2>5, <2>6, <2>7, <2>8, <2>9, <2>10
<1>14. ReadInv'
  <2>1. \A g : Expands(g, MaxOpen)' => Expands(g, MaxOpen)
    BY <1>1, ExpandsConstant
  <2>2. \A g, d, st : SoFar(g, d, st)' = SoFar(g, d, st)
    BY <1>1, SoFarConstant
  <2>3. QED
    BY <1>1, <1>4, <1>6, <1>13, <2>1, <2>2 DEF ReadInv
<1>15. QED
  BY <1>1, <1>4, <1>11, <1>12, <1>14

LEMMA EndOfIncludeReads ==
  ASSUME LexerInv, LexerTypes', Nested(buffers, start), DepthInv, ReadInv, EndOfInclude
  PROVE  Nested(buffers', start') /\ DepthInv' /\ ReadInv'
<1>1. /\ LexerTypes /\ AtEnd /\ Len(buffers) > 1 /\ buffers' = Front(buffers)
      /\ start = "INITIAL" /\ start' = "incl" /\ UNCHANGED <<text, opened, tokens>>
  BY DEF LexerInv, EndOfInclude
<1>2. PICK m \in Nat : m + 1 = Len(buffers) /\ m # 0 /\ m + 1 <= MaxOpen
  <2>1. PICK n \in Nat : n = Len(buffers) /\ n > 1
    BY <1>1, LenProperties DEF LexerTypes
  <2>2. n - 1 \in Nat /\ (n - 1) + 1 = n /\ n - 1 # 0
    BY <2>1
  <2>3. n <= MaxOpen
    BY <2>1, OpenAssumption DEF DepthInv
  <2>4. QED
    BY <2>1, <2>2, <2>3
<1>3. PICK b : b = buffers
  OBVIOUS
<1>4. PICK c : c = buffers'
  OBVIOUS
<1>5. b \in Seq(Buffer) /\ c \in Seq(Buffer) /\ Len(b) = m + 1
  BY <1>1, <1>2, <1>3, <1>4 DEF LexerTypes, Buffer
<1>6. Len(c) = m /\ \A k \in 1 .. m : c[k] = b[k]
  <2>1. \A k \in 1 .. m : b[k] \in Buffer
    BY <1>5, ElementOfSeq
  <2>2. PICK u \in Int : u = 1
    OBVIOUS
  <2>3. \A k \in u .. m : b[k] \in Buffer
    BY <2>1, <2>2
  <2>4. /\ Len(SubSeq(b, u, m)) = IF u <= m THEN m - u + 1 ELSE 0
        /\ \A k \in 1 .. m - u + 1 : SubSeq(b, u, m)[k] = b[u + k - 1]
    <3>1. m \in Int
      OBVIOUS
    <3>2. QED
      BY ONLY <2>3, u \in Int, <3>1, SubSeqProperties
  <2>5. c = SubSeq(b, u, m)
    <3>1. (m + 1) - 1 = m
      OBVIOUS
    <3>2. QED
      BY <1>1, <1>3, <1>4, <1>5, <2>2, <3>1 DEF Front
  <2>6. QED
    BY ONLY m \in Nat, <1>2, <2>2, <2>4, <2>5
<1>7. /\ b[1].file = Root
      /\ \A k \in 1 .. m + 1 : b[k].next <= Len(text[b[k].file]) + 1
      /\ \A k \in 1 .. m + 1 : k < m + 1 =>
           /\ b[k].next <= Len(text[b[k].file])
           /\ text[b[k].file][b[k].next].kind = "include"
      /\ \A k \in 1 .. (m + 1) - 1 : text[b[k].file][b[k].next].file = b[k + 1].file
  BY <1>3, <1>5, Zenon DEF Nested
<1>8. \A k \in 1 .. m : k < m + 1 /\ k \in 1 .. m + 1 /\ k \in 1 .. (m + 1) - 1
  OBVIOUS
<1>9. Nested(c, "incl")
  <2>1. c[1].file = Root
    BY <1>2, <1>6, <1>7
  <2>2. \A k \in 1 .. m : c[k].next <= Len(text[c[k].file]) + 1
    BY <1>6, <1>7, <1>8
  <2>3. \A k \in 1 .. m : /\ c[k].next <= Len(text[c[k].file])
                          /\ text[c[k].file][c[k].next].kind = "include"
    BY <1>6, <1>7, <1>8
  <2>4. \A k \in 1 .. m - 1 : text[c[k].file][c[k].next].file = c[k + 1].file
    <3>1. SUFFICES ASSUME NEW k \in 1 .. m - 1
                   PROVE  text[c[k].file][c[k].next].file = c[k + 1].file
      OBVIOUS
    <3>2. k \in 1 .. m /\ k + 1 \in 1 .. m
      OBVIOUS
    <3>3. QED
      BY <1>6, <1>7, <1>8, <3>2
  <2>5. QED
    BY ONLY <1>6, <2>1, <2>2, <2>3, <2>4, SMT DEF Nested
<1>10. DepthInv'
  BY <1>1, <1>2, <1>4, <1>6 DEF DepthInv
<1>11. ASSUME NEW g, Expands(g, MaxOpen)
       PROVE  tokens' = Flat(SoFar(g, c, "incl"), m)
  <2>1. PICK E : E = SoFar(g, b, "INITIAL")
    OBVIOUS
  <2>2. PICK F : F = SoFar(g, c, "incl")
    OBVIOUS
  <2>3. \A k \in 1 .. m - 1 : F[k] = E[k]
    <3>1. SUFFICES ASSUME NEW k \in 1 .. m - 1 PROVE F[k] = E[k]
      OBVIOUS
    <3>2. k \in 1 .. Len(b) /\ k \in 1 .. Len(c) /\ b[k] = c[k] /\ k # Len(c)
      BY <1>5, <1>6
    <3>3. Covered(b, "INITIAL", k) = Covered(c, "incl", k)
      BY <3>2 DEF Covered
    <3>4. QED
      BY <2>1, <2>2, <3>2, <3>3, Zenon DEF SoFar
  <2>4. \A k \in 1 .. m + 1 : E[k] \in Seq(Place)
    BY <1>1, <1>2, <1>3, <1>5, <1>11, <2>1, SoFarTypes
  <2>5. PICK h, p : h = b[m] /\ p = b[m + 1]
    OBVIOUS
  <2>6. h \in Buffer /\ p \in Buffer /\ m \in 1 .. m + 1 /\ m + 1 \in 1 .. m + 1 /\ m \in 1 .. m
    BY <1>2, <1>5, <2>5, ElementOfSeq
  <2>7. /\ h.file \in DOMAIN text /\ h.next \in 1 .. Len(text[h.file])
        /\ p.file \in DOMAIN text /\ p.next - 1 = Len(text[p.file])
    <3>1. /\ h.file \in DOMAIN text /\ h.next \in Nat \ {0}
          /\ p.file \in DOMAIN text /\ p.next \in Nat \ {0}
      BY <2>6 DEF Buffer
    <3>2. Len(text[h.file]) \in Nat /\ Len(text[p.file]) \in Nat
      BY <1>1, <3>1, LenProperties DEF LexerTypes
    <3>3. h.next <= Len(text[h.file]) /\ p.next <= Len(text[p.file]) + 1
      BY <1>7, <1>8, <2>5, <2>6
    <3>4. p.next > Len(text[p.file])
      <4>1. Top = p
        BY <1>2, <1>3, <2>5 DEF Top, Last
      <4>2. QED
        BY <1>1, <4>1 DEF AtEnd
    <3>5. QED
      BY <3>1, <3>2, <3>3, <3>4
  <2>8. PICK d : d = MaxOpen - m
    OBVIOUS
  <2>9. d \in 0 .. MaxOpen /\ d - 1 \in 0 .. MaxOpen /\ d > 0 /\ d - 1 = MaxOpen - (m + 1)
    BY <1>2, <2>8, OpenAssumption
  <2>10. E[m] = Done(g, d, h.file, h.next - 1)
    <3>1. Covered(b, "INITIAL", m) = h.next - 1
      BY <2>5 DEF Covered
    <3>2. QED
      BY <1>5, <2>1, <2>5, <2>6, <2>8, <3>1, Zenon DEF SoFar
  <2>11. E[m + 1] = g[d - 1][p.file]
    <3>1. Covered(b, "INITIAL", m + 1) = Len(text[p.file])
      BY <2>5, <2>7 DEF Covered
    <3>2. E[m + 1] = Done(g, d - 1, p.file, Len(text[p.file]))
      BY <1>5, <2>1, <2>5, <2>6, <2>9, <3>1, Zenon DEF SoFar
    <3>3. QED
      BY <1>1, <1>11, <2>7, <2>9, <3>2, ExpandsWhole
  <2>12. F[m] = Done(g, d, h.file, h.next)
    <3>1. c[m] = h
      BY <1>6, <2>5, <2>6
    <3>2. Covered(c, "incl", m) = h.next
      <4>1. h.next - 0 = h.next
        BY <2>7
      <4>2. QED
        BY <1>6, <3>1, <4>1 DEF Covered
    <3>3. QED
      BY <1>6, <2>2, <2>6, <2>8, <3>1, <3>2, Zenon DEF SoFar
  <2>13. LineOf(g, d, h.file, h.next) = g[d - 1][p.file]
    <3>1. /\ text[h.file][h.next].kind = "include"
          /\ text[h.file][h.next].file = p.file
      BY <1>7, <1>8, <2>5, <2>6
    <3>2. QED
      BY <2>7, <2>9, <3>1 DEF LineOf
  <2>14. F[m] = E[m] \o E[m + 1]
    <3>1. \A n \in 1 .. Len(text[h.file]) :
            Done(g, d, h.file, n) = Done(g, d, h.file, n - 1) \o LineOf(g, d, h.file, n)
      BY <1>1, <1>11, <2>7, <2>9, DoneFacts
    <3>2. QED
      BY <2>7, <2>10, <2>11, <2>12, <2>13, <3>1
  <2>15. Flat(F, m) = Flat(E, m) \o E[m + 1]
    <3>1. \A k \in 1 .. m : E[k] \in Seq(Place)
      BY <1>8, <2>4
    <3>2. PICK t \in Seq(Place) : t = E[m + 1]
      BY <2>4, <2>6
    <3>3. F[m] = E[m] \o t
      BY <2>14, <3>2
    <3>4. m # 0
      BY <1>2
    <3>5. Flat(F, m) = Flat(E, m) \o t
      BY ONLY m \in Nat, <2>3, <3>1, <3>3, <3>4, t \in Seq(Place), FlatLonger, Zenon
    <3>6. QED
      BY <3>2, <3>5
  <2>16. Flat(E, m + 1) = Flat(E, m) \o E[m + 1]
    <3>1. PICK n \in Nat : n = m + 1 /\ n # 0 /\ n - 1 = m
      OBVIOUS
    <3>2. \A k \in 1 .. n : E[k] \in Seq(Place)
      BY <2>4, <3>1
    <3>3. n # 0
      BY <3>1
    <3>4. Flat(E, n) = Flat(E, n - 1) \o E[n]
      BY ONLY n \in Nat, <3>2, <3>3, FlatLast, Zenon
    <3>5. QED
      BY <3>1, <3>4
  <2>17. tokens = Flat(E, m + 1)
    BY <1>1, <1>2, <1>3, <1>11, <2>1 DEF ReadInv
  <2>18. QED
    BY <1>1, <2>2, <2>15, <2>16, <2>17
<1>12. ReadInv'
  <2>1. \A g : Expands(g, MaxOpen)' => Expands(g, MaxOpen)
    BY <1>1, ExpandsConstant
  <2>2. \A g, d, st : SoFar(g, d, st)' = SoFar(g, d, st)
    BY <1>1, SoFarConstant
  <2>3. QED
    BY <1>1, <1>4, <1>6, <1>11, <2>1, <2>2 DEF ReadInv
<1>13. QED
  BY <1>1, <1>4, <1>9, <1>10, <1>12

(* The parser touches none of this. *)
LEMMA SameProgress ==
  ASSUME Nested(buffers, start), DepthInv, ReadInv,
         UNCHANGED <<text, buffers, start, opened, tokens>>
  PROVE  Nested(buffers', start') /\ DepthInv' /\ ReadInv'
<1>1. \A g : Expands(g, MaxOpen)' => Expands(g, MaxOpen)
  BY ExpandsConstant
<1>2. \A g, b, st : SoFar(g, b, st)' = SoFar(g, b, st)
  BY SoFarConstant
<1>3. ReadInv'
  BY <1>1, <1>2 DEF ReadInv
<1>4. QED
  BY <1>3 DEF DepthInv

LEMMA LexerReads ==
  ASSUME LexerInv, LexerTypes', Nested(buffers, start), DepthInv, ReadInv, Token \/ Directive
  PROVE  Nested(buffers', start') /\ DepthInv' /\ ReadInv'
<1>1. CASE Token
  BY <1>1, TokenReads
<1>2. CASE Include
  BY <1>2, IncludeReads
<1>3. CASE RestOfLine
  BY <1>3, RestReads
<1>4. CASE EndOfInclude
  BY <1>4, EndOfIncludeReads
<1>5. CASE IncludeFails \/ TrailingText \/ EndOfFile
  BY <1>5, SameProgress DEF IncludeFails, TrailingText, EndOfFile
<1>6. QED
  BY <1>1, <1>2, <1>3, <1>4, <1>5 DEF Directive

(* The end of the root file is reached by the lexer only, and the statements
   are all in the AST when the parser accepts. *)
LEMMA EndKept ==
  ASSUME FileInv, EndInv, [FileNext]_allvars
  PROVE  EndInv' /\ (start \in {"INITIAL", "incl"} => start' \in {"INITIAL", "incl"})
<1>1. ASSUME NEW s \in Ast!Statement, NEW block \in BOOLEAN, Shift(s, block)
      PROVE  /\ pc' = "lex" /\ parse' = "parse" /\ start' = start
  BY <1>1 DEF Shift, Asks, Token, astvars
<1>2. ASSUME LexerStep
      PROVE  /\ parse' = "parse" /\ start' \in {start, "INITIAL", "incl"}
             /\ pc' = "eof" => Len(buffers) = 1 /\ AtEnd /\ start = "INITIAL"
                                 /\ UNCHANGED <<buffers, start, text>>
  BY <1>2 DEF LexerStep, Asks, Directive, Include, IncludeFails, RestOfLine, TrailingText,
     EndOfInclude, EndOfFile, astvars
<1>3. CASE LexerStep
  <2>1. pc' = "eof" => AtEnd'
    BY <1>2, <1>3 DEF AtEnd, Top
  <2>2. QED
    BY <1>2, <1>3, <2>1 DEF EndInv
<1>4. ASSUME Reduce \/ SyntaxError
      PROVE  UNCHANGED vars /\ parse' # "parsed"
  <2>1. CASE Reduce
    <3>1. PICK s : s = Head(inparser).s
      OBVIOUS
    <3>2. \/ Ast!BindingStatement(s) \/ Ast!ClassStatement(s)
          \/ Ast!ManufactureClass(s) \/ Ast!UpdateClass(s)
      BY <2>1, <3>1 DEF Reduce
    <3>3. Ast!Read(s)
      BY <3>2 DEF Ast!BindingStatement, Ast!ClassStatement, Ast!ManufactureClass, Ast!UpdateClass
    <3>4. parse = "parse" /\ parse' = parse
      BY <3>3 DEF Ast!Read
    <3>5. UNCHANGED vars
      BY <2>1 DEF Reduce
    <3>6. QED
      BY <3>4, <3>5
  <2>2. CASE SyntaxError
    BY <2>2 DEF SyntaxError, Ast!Abort
  <2>3. QED
    BY <1>4, <2>1, <2>2
<1>5. ASSUME UNCHANGED vars PROVE AtEnd' <=> AtEnd
  BY <1>5 DEF AtEnd, Top, vars
<1>6. CASE Reduce \/ SyntaxError
  BY <1>4, <1>5, <1>6 DEF EndInv, vars
<1>7. CASE Accept
  BY <1>5, <1>7 DEF EndInv, Accept, vars
<1>8. CASE UNCHANGED allvars
  BY <1>5, <1>8 DEF EndInv, allvars, vars, astvars
<1>9. CASE \E s \in Ast!Statement, block \in BOOLEAN : Shift(s, block)
  BY <1>1, <1>9 DEF EndInv
<1>10. QED
  BY <1>3, <1>6, <1>7, <1>8, <1>9 DEF FileNext, Parse

LEMMA ProgressStart ==
  ASSUME FileInit
  PROVE  ProgressInv
<1>1. FileInv
  BY FileInitInv
<1>2. LexerTypes
  BY <1>1 DEF FileInv, LexerInv
<1>3. /\ buffers = <<[file |-> Root, next |-> 1]>> /\ start = "INITIAL"
      /\ opened = 1 /\ tokens = <<>> /\ pc = "lex" /\ parse = "parse"
  BY DEF FileInit, FileStart, Start, Ast!Init
<1>4. PICK b : b = buffers[1]
  OBVIOUS
<1>5. Len(buffers) = 1 /\ b.file = Root /\ b.next = 1
  BY <1>3, <1>4
<1>6. Root \in DOMAIN text
  BY DEF FileInit, Texts
<1>7. Len(text[Root]) \in Nat
  BY <1>2, <1>6, LenProperties DEF LexerTypes
<1>8. Nested(buffers, start)
  <2>1. \A k \in 1 .. 1 : k = 1 /\ ~ (k < 1)
    OBVIOUS
  <2>2. 1 - 1 = 0 /\ 1 .. 0 = {} /\ 1 <= Len(text[Root]) + 1
    BY <1>7
  <2>3. QED
    BY ONLY <1>3, <1>4, <1>5, <2>1, <2>2 DEF Nested
<1>9. ASSUME NEW g
      PROVE  Flat(SoFar(g, buffers, start), 1) = <<>>
  <2>1. 1 \in 1 .. Len(buffers) /\ Covered(buffers, start, 1) = 0
    BY <1>3, <1>4, <1>5 DEF Covered
  <2>2. SoFar(g, buffers, start)[1] = <<>>
    <3>1. SoFar(g, buffers, start)[1] = Done(g, MaxOpen - 1, b.file, 0)
      BY <1>4, <2>1, Zenon DEF SoFar
    <3>2. QED
      BY <3>1, FlatZero DEF Done
  <2>3. PICK E : E = SoFar(g, buffers, start)
    OBVIOUS
  <2>4. PICK n \in Nat : n = 1 /\ n # 0 /\ n - 1 = 0
    OBVIOUS
  <2>5. \A k \in 1 .. n : E[k] \in Seq(Place)
    <3>1. <<>> \in Seq(Place) /\ \A k \in 1 .. n : k = 1
      BY <2>4
    <3>2. QED
      BY <2>2, <2>3, <3>1
  <2>6. n # 0
    BY <2>4
  <2>7. Flat(E, n) = Flat(E, n - 1) \o E[n]
    BY ONLY n \in Nat, <2>5, <2>6, FlatLast, Zenon
  <2>8. <<>> \o <<>> = <<>>
    OBVIOUS
  <2>9. QED
    BY <2>2, <2>3, <2>4, <2>7, <2>8, FlatZero
<1>10. ReadInv
  BY <1>3, <1>5, <1>9 DEF ReadInv
<1>11. DepthInv /\ EndInv
  BY <1>3, <1>5, OpenAssumption DEF DepthInv, EndInv
<1>12. QED
  BY <1>3, <1>8, <1>10, <1>11 DEF ProgressInv

LEMMA ProgressKept ==
  ASSUME FileInv, FileInv', ProgressInv, [FileNext]_allvars
  PROVE  ProgressInv'
<1>1. LexerInv /\ LexerTypes' /\ Nested(buffers, start) /\ DepthInv /\ ReadInv
  BY DEF FileInv, LexerInv, ProgressInv
<1>2. EndInv' /\ start' \in {"INITIAL", "incl"}
  BY EndKept DEF ProgressInv
<1>3. UNCHANGED text /\ (Token \/ Directive \/ UNCHANGED vars)
  BY DEF FileNext, Parse, Shift, LexerStep, Reduce, Accept, SyntaxError, allvars, vars,
     Token, Directive, Include, IncludeFails, RestOfLine, TrailingText, EndOfInclude, EndOfFile
<1>4. Nested(buffers', start') /\ DepthInv' /\ ReadInv'
  BY <1>1, <1>3, LexerReads, SameProgress DEF vars
<1>5. Nested(buffers, start)'
  BY <1>3, <1>4 DEF Nested
<1>6. QED
  BY <1>2, <1>4, <1>5 DEF ProgressInv

(* The statements kept of a file read to its end are those of the root file
   with every directive replaced by what the named file comes to, however
   the files are nested and whatever the parser was waiting for meanwhile. *)
THEOREM IncludesInPlace == FileSpec => []StatementsLocated
<1>1. FileInv /\ ProgressInv => StatementsLocated
  <2> SUFFICES ASSUME FileInv, ProgressInv, parse = "parsed"
               PROVE  located = Expanded[MaxOpen - 1][Root]
    BY DEF StatementsLocated
  <2>1. LexerTypes /\ inparser = <<>> /\ Len(buffers) = 1 /\ AtEnd /\ start = "INITIAL"
    BY DEF FileInv, LexerInv, ProgressInv, EndInv
  <2>2. PICK g : g = Expanded
    OBVIOUS
  <2>3. Expands(g, MaxOpen)
    BY <2>2, ExpandedExpands
  <2>4. PICK E : E = SoFar(g, buffers, start)
    OBVIOUS
  <2>5. tokens = Flat(E, 1)
    BY <2>1, <2>3, <2>4 DEF ProgressInv, ReadInv
  <2>6. Len(buffers) <= MaxOpen
    BY <2>1, OpenAssumption
  <2>7. PICK b : b = buffers[1]
    OBVIOUS
  <2>8. b = Top /\ b \in Buffer /\ b.file = Root
    <3>1. b = Top /\ b \in Buffer
      BY <2>1, <2>7, HereIsLine
    <3>2. QED
      BY <2>7, <3>1 DEF ProgressInv, Nested
  <2>9. 1 \in 1 .. Len(buffers) /\ MaxOpen - 1 \in 0 .. MaxOpen /\ Root \in DOMAIN text
    BY <2>1, <2>8, OpenAssumption DEF Buffer
  <2>10. Covered(buffers, start, 1) = Len(text[Root])
    <3>1. b.next \in Nat /\ Len(text[Root]) \in Nat
      BY <2>1, <2>8, <2>9, LenProperties DEF LexerTypes, Buffer
    <3>2. b.next > Len(text[Root])
      BY <2>1, <2>8 DEF AtEnd
    <3>3. b.next <= Len(text[Root]) + 1
      BY <2>7, <2>8, <2>9 DEF ProgressInv, Nested
    <3>4. QED
      BY <2>1, <2>7, <3>1, <3>2, <3>3 DEF Covered
  <2>11. E[1] = g[MaxOpen - 1][Root]
    <3>1. E[1] = Done(g, MaxOpen - 1, Root, Len(text[Root]))
      BY <2>4, <2>7, <2>8, <2>9, <2>10, Zenon DEF SoFar
    <3>2. QED
      BY <2>1, <2>3, <2>9, <3>1, ExpandsWhole
  <2>12. E[1] \in Seq(Place)
    BY <2>1, <2>3, <2>9, <2>11, ExpandsType
  <2>13. Flat(E, 1) = E[1]
    <3>1. PICK n \in Nat : n = 1 /\ n # 0 /\ n - 1 = 0
      OBVIOUS
    <3>2. \A k \in 1 .. n : E[k] \in Seq(Place)
      <4>1. \A k \in 1 .. n : k = 1
        BY <3>1
      <4>2. QED
        BY <2>12, <4>1
    <3>3. n # 0
      BY <3>1
    <3>4. Flat(E, n) = Flat(E, n - 1) \o E[n]
      BY ONLY n \in Nat, <3>2, <3>3, FlatLast, Zenon
    <3>5. <<>> \o E[1] = E[1]
      BY <2>12, ConcatEmptySeq
    <3>6. QED
      BY <3>1, <3>4, <3>5, FlatZero
  <2>14. located = tokens
    <3>1. /\ located \in Seq(Place) /\ tokens \in Seq(Place)
          /\ Len(tokens) = Len(located) /\ \A k \in 1 .. Len(located) : tokens[k] = located[k]
      <4>1. Len(inparser) = 0 /\ Len(located) \in Nat
        BY <2>1, LenProperties DEF FileInv, PlacesInv
      <4>2. QED
        BY <2>1, <4>1 DEF FileInv, PlacesInv, LexerTypes
    <3>2. QED
      BY ONLY <3>1, SeqEqual
  <2>15. QED
    BY <2>2, <2>5, <2>11, <2>13, <2>14
<1>2. FileInit => ProgressInv
  BY ProgressStart
<1>3. FileInv /\ FileInv' /\ ProgressInv /\ [FileNext]_allvars => ProgressInv'
  BY ProgressKept
<1>4. QED
  BY <1>1, <1>2, <1>3, FileInvariant, PTL DEF FileSpec
=============================================================================
