------------------------------- MODULE Texts -------------------------------
(***************************************************************************)
(* The functions of the program that take a text apart, on every text of a *)
(* bounded length: splitStatements, which cuts a migration file into the   *)
(* statements Migrate executes; escapeLike, which makes the text of a      *)
(* search into a LIKE pattern; etagMatches, which reads If-None-Match.     *)
(* splitStatements is a loop with a memory, and is a state machine here.   *)
(* A text is a sequence of characters, and only those that matter occur.   *)
(***************************************************************************)
EXTENDS SequencesExt, Integers

CONSTANTS
    FileChars,    \* of a migration file
    QueryChars,   \* of the text a panel user searches for
    NameChars,    \* of keys and tag names (keyRe, tagRe: no % and no \)
    HeaderParts,  \* of an If-None-Match header; the prefix W/ is one part
    ETag,         \* the ETag the header is compared with, of the same parts
    MaxFile, MaxQuery, MaxName, MaxHeader   \* bounds: lengths

ASSUME TextsBounds ==
    MaxFile \in Nat /\ MaxQuery \in Nat /\ MaxName \in Nat /\ MaxHeader \in Nat

\* FilteredETag: a number and perhaps a tag, between quotes.  tagRe has no comma.
ASSUME ETagIsQuoted ==
    /\ ETag \in Seq(HeaderParts)
    /\ Len(ETag) >= 2
    /\ ETag[1] = "\"" /\ ETag[Len(ETag)] = "\""
    /\ \A k \in DOMAIN ETag : ETag[k] # ","

VARIABLES
    task,     \* which function is called, and on what
    i,        \* splitStatements: the index of the next rune
    cur,      \* ... the statement being collected
    out,      \* ... the statements found
    inStr,
    inLnCmt,
    answer    \* what the call returned; "running" before that

textVars == <<task, i, cur, out, inStr, inLnCmt, answer>>

Upto(chars, n) == UNION {[1 .. k -> chars] : k \in 0 .. n}

Blank == {" ", "\n"}

\* strings.TrimSpace.
TrimSpace(s) ==
    LET ink == {k \in DOMAIN s : s[k] \notin Blank}
    IN  IF ink = {} THEN <<>> ELSE SubSeq(s, Min(ink), Max(ink))
-----------------------------------------------------------------------------
(* splitStatements; one action per case of its switch. *)

Splitting == task.call = "split" /\ answer = "running" /\ i <= Len(task.text)
Rune      == task.text[i]
NextIs(c) == i < Len(task.text) /\ task.text[i + 1] = c

\* The statement collected so far, unless it is blank.
WithStatement == IF TrimSpace(cur) = <<>> THEN out ELSE Append(out, TrimSpace(cur))

\* A variant of InComment: the end of the line goes with the comment.
InCommentToTheEnd ==
    /\ Splitting /\ inLnCmt
    /\ inLnCmt' = (Rune # "\n")
    /\ i' = i + 1
    /\ UNCHANGED <<task, cur, out, inStr, answer>>

InComment ==
    /\ Splitting /\ inLnCmt
    /\ inLnCmt' = (Rune # "\n")
    /\ cur' = IF Rune = "\n" THEN Append(cur, Rune) ELSE cur
    /\ i' = i + 1
    /\ UNCHANGED <<task, out, inStr, answer>>

\* A doubled quote inside a literal is taken whole.
InString ==
    /\ Splitting /\ ~ inLnCmt /\ inStr
    /\ LET escaped == Rune = "'" /\ NextIs("'")
       IN  /\ inStr' = (Rune # "'" \/ escaped)
           /\ cur' = IF escaped THEN cur \o <<"'", "'">> ELSE Append(cur, Rune)
           /\ i' = IF escaped THEN i + 2 ELSE i + 1
    /\ UNCHANGED <<task, out, inLnCmt, answer>>

InCode == Splitting /\ ~ inLnCmt /\ ~ inStr

StartComment ==
    /\ InCode /\ Rune = "-" /\ NextIs("-")
    /\ inLnCmt' = TRUE
    /\ i' = i + 2
    /\ UNCHANGED <<task, cur, out, inStr, answer>>

EndStatement ==
    /\ InCode /\ Rune = ";"
    /\ out' = WithStatement
    /\ cur' = <<>>
    /\ i' = i + 1
    /\ UNCHANGED <<task, inStr, inLnCmt, answer>>

\* The first quote of a literal, or any other rune.
Take ==
    /\ InCode /\ Rune # ";"
    /\ ~ (Rune = "-" /\ NextIs("-"))
    /\ inStr' = (Rune = "'")
    /\ cur' = Append(cur, Rune)
    /\ i' = i + 1
    /\ UNCHANGED <<task, out, inLnCmt, answer>>

EndOfFile ==
    /\ task.call = "split" /\ answer = "running" /\ i > Len(task.text)
    /\ out' = WithStatement
    /\ answer' = "done"
    /\ UNCHANGED <<task, i, cur, inStr, inLnCmt>>
-----------------------------------------------------------------------------
(* escapeLike, and what LIKE ... ESCAPE '\' does with its result. *)

\* A variant of Escaped, without the wildcard of keys such as new_checkout.
EscapedPercent(c) == IF c \in {"\\", "%"} THEN <<"\\", c>> ELSE <<c>>

Escaped(c) == IF c \in {"\\", "%", "_"} THEN <<"\\", c>> ELSE <<c>>

EscapeLike(s) ==
    <<"%">> \o FlattenSeq([k \in DOMAIN s |-> Escaped(s[k])]) \o <<"%">>

\* SQLite folds the case of ASCII letters.
Fold(c)    == IF c = "A" THEN "a" ELSE c
Same(c, d) == Fold(c) = Fold(d)

\* Where in s what the pattern p says from k on can begin.
Begins(p, s) ==
    LET from[k \in 1 .. Len(p) + 1] ==
          IF k > Len(p) THEN {Len(s) + 1}
          ELSE CASE p[k] = "%"  -> {j \in 1 .. Len(s) + 1 : \E e \in from[k + 1] : j <= e}
                 [] p[k] = "_"  -> {j \in 1 .. Len(s) : j + 1 \in from[k + 1]}
                 [] p[k] = "\\" -> {j \in 1 .. Len(s) : /\ k < Len(p)
                                                       /\ Same(p[k + 1], s[j])
                                                       /\ j + 1 \in from[k + 2]}
                 [] OTHER       -> {j \in 1 .. Len(s) : /\ Same(p[k], s[j])
                                                       /\ j + 1 \in from[k + 1]}
    IN  from

Likes(p, s) == 1 \in Begins(p, s)[1]

Search ==
    /\ task.call = "search" /\ answer = "running"
    /\ answer' = IF Likes(EscapeLike(task.text), task.with) THEN "yes" ELSE "no"
    /\ UNCHANGED <<task, i, cur, out, inStr, inLnCmt>>
-----------------------------------------------------------------------------
(* etagMatches *)

\* strings.Split(s, ","), as a set.
Candidates(s) ==
    LET ends == {0, Len(s) + 1} \cup {k \in DOMAIN s : s[k] = ","}
    IN  {SubSeq(s, ab[1] + 1, ab[2] - 1) : ab \in
            {ab \in ends \X ends : ab[1] < ab[2] /\ ~ \E k \in ends : ab[1] < k /\ k < ab[2]}}

\* strings.TrimPrefix(s, "W/").
Strong(s) == IF s # <<>> /\ Head(s) = "W/" THEN Tail(s) ELSE s

\* A variant of ETagMatches: an element counts as it stands between its commas.
UntrimmedMatches(header, etag) ==
    LET given == TrimSpace(header)
    IN  \/ given = <<"*">>
        \/ given # <<>> /\ \E c \in Candidates(given) : Strong(c) = etag

ETagMatches(header, etag) ==
    LET given == TrimSpace(header)
    IN  \/ given = <<"*">>
        \/ given # <<>> /\ \E c \in Candidates(given) : Strong(TrimSpace(c)) = etag

Match ==
    /\ task.call = "match" /\ answer = "running"
    /\ answer' = IF ETagMatches(task.text, task.with) THEN "yes" ELSE "no"
    /\ UNCHANGED <<task, i, cur, out, inStr, inLnCmt>>
-----------------------------------------------------------------------------
Init ==
    /\ \/ \E s \in Upto(FileChars, MaxFile) :
             task = [call |-> "split", text |-> s, with |-> <<>>]
       \/ \E s \in Upto(QueryChars, MaxQuery), name \in Upto(NameChars, MaxName) :
             /\ s # <<>>
             /\ task = [call |-> "search", text |-> s, with |-> name]
       \/ \E s \in Upto(HeaderParts, MaxHeader) :
             task = [call |-> "match", text |-> s, with |-> ETag]
    /\ i = 1 /\ cur = <<>> /\ out = <<>>
    /\ inStr = FALSE /\ inLnCmt = FALSE
    /\ answer = "running"

Next ==
    \/ InComment \/ InString \/ StartComment \/ EndStatement \/ Take \/ EndOfFile
    \/ Search
    \/ Match

Spec == Init /\ [][Next]_textVars
-----------------------------------------------------------------------------
(* What the three are to compute, said another way. *)

\* Where a rune stands, by where the rune before it stands: in code, in code behind a
\* dash, in a literal, in a comment.  A doubled quote leaves a literal and enters the
\* next.
NextRegion(before, rune) ==
    CASE before = "literal" -> IF rune = "'" THEN "code" ELSE "literal"
      [] before = "comment" -> IF rune = "\n" THEN "code" ELSE "comment"
      [] OTHER ->
           CASE rune = "'" -> "literal"
             [] rune = "-" -> IF before = "dash" THEN "comment" ELSE "dash"
             [] OTHER      -> "code"

\* ... and so never by what follows it.
Region(file) ==
    LET after[k \in 0 .. Len(file)] ==
          IF k = 0 THEN "code" ELSE NextRegion(after[k - 1], file[k])
    IN  after

Separators(file) ==
    {k \in DOMAIN file : /\ file[k] = ";" /\ Region(file)[k] = "code"
                         /\ Region(file)[k - 1] \in {"code", "dash"}}

\* With the dashes that open it, without the end of the line.
Comments(file) ==
    {k \in DOMAIN file :
        \/ Region(file)[k] = "comment"
        \/ /\ Region(file)[k] = "dash"
           /\ k < Len(file) /\ Region(file)[k + 1] = "comment"}

\* The runes at some positions, as far as k, in the order of the file.
RunesAt(file, positions) ==
    LET upto[k \in 0 .. Len(file)] ==
          IF k = 0 THEN <<>>
          ELSE IF k \in positions THEN Append(upto[k - 1], file[k]) ELSE upto[k - 1]
    IN  upto

\* What stands before position e and behind the last separator before e.
Piece(file, e) ==
    RunesAt(file, {k \in DOMAIN file \ Comments(file) :
                      \A s \in Separators(file) : s < e => s < k})[e - 1]

\* The pieces in front of the separators and of the end of the file, as far as
\* position e, but for the blank ones.
Pieces(file) ==
    LET ends    == Separators(file) \cup {Len(file) + 1}
        text(e) == TrimSpace(Piece(file, e))
        upto[e \in 0 .. Len(file) + 1] ==
          IF e = 0 THEN <<>>
          ELSE IF e \in ends /\ text(e) # <<>>
               THEN Append(upto[e - 1], text(e))
               ELSE upto[e - 1]
    IN  upto

Statements(file) == Pieces(file)[Len(file) + 1]

OccursIn(s, name) ==
    \E k \in 0 .. Len(name) - Len(s) : \A n \in DOMAIN s : Same(s[n], name[k + n])

\* The etag stands between two commas or ends of the header, with blanks around it
\* and perhaps W/ immediately before it.
ListedIn(etag, header) ==
    \E a, b \in 0 .. Len(header) :
       /\ SubSeq(header, a + 1, b) = etag
       /\ \E s \in 0 .. a :
             /\ s = 0 \/ header[s] = ","
             /\ \A k \in s + 1 .. a : header[k] \in Blank \/ (k = a /\ header[k] = "W/")
       /\ \E t \in b + 1 .. Len(header) + 1 :
             /\ t = Len(header) + 1 \/ header[t] = ","
             /\ \A k \in b + 1 .. t - 1 : header[k] \in Blank
-----------------------------------------------------------------------------
(* Properties *)

\* db.go, splitStatements: semicolons separate statements except in literals, with
\* their doubled quotes, and in comments up to the end of the line; nothing of a
\* statement is lost and nothing of a comment is left.
SplitsAtSemicolonsOfCode ==
    task.call = "split" /\ answer = "done" => out = Statements(task.text)

\* tags.go, escapeLike and ListFilter: a search finds the names in which the text
\* occurs, whatever wildcards it holds and in whatever case it is typed.
SearchIsForTheText ==
    task.call = "search" /\ answer # "running"
       => (answer = "yes" <=> OccursIn(task.text, task.with))

\* etag.go, etagMatches: a request is answered 304 only for an ETag that its header
\* lists, weak or not, or for the wildcard, and always for these.
MatchesWhatIsListed ==
    task.call = "match" /\ answer # "running"
       => (answer = "yes" <=> \/ TrimSpace(task.text) = <<"*">>
                              \/ ListedIn(task.with, task.text))
=============================================================================
