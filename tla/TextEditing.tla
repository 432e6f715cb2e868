------------------------------ MODULE TextEditing ------------------------------
(***************************************************************************)
(* element/textbox/Textbox.cpp: the text, the cursor, the selection and    *)
(* the input method's preedit text of a text box, and what its label       *)
(* shows.  One action per key of the key handler, per mouse press, per     *)
(* input-method event and per call of the application.                     *)
(*                                                                         *)
(* The text is the std::string of the code, a sequence of bytes; cursor    *)
(* and selection are byte offsets.  The characters typed and pasted are    *)
(* "a", a space, a newline and a character of two bytes.                   *)
(***************************************************************************)
EXTENDS UTF8

CONSTANTS
  MaxBytes,  \* bound: no text or preedit grows past this many bytes
  Typed,     \* what one key press inserts
  Preedits,  \* what the input method composes
  Pasted,    \* what the clipboard may hold; another client may change it
  AppTexts   \* what the application sets as the text

Space   == "sp"
Newline == "nl"

ASSUME TextAssumption ==
  /\ MaxBytes \in Nat
  /\ \A s \in Typed \cup Preedits \cup Pasted \cup AppTexts :
        s \in Seq({"a", Space, Newline, Lead, Cont}) /\ WellFormed(s)

VARIABLES
  edit,      \* data.text and inputState: text, cursor, selectBegin, selectEnd, imText
  opts,      \* data: multiline, password, eyeIcon
  focused,   \* the cursor is a child of the box: it has the keyboard
  label,     \* what updateLabel last rendered, and the symbol of the eye
  reported,  \* history: the text the application was last told, or set itself
  strayed    \* history: the position was taken from a point on the label, a text cut
             \* short or a preedit, which ignore character boundaries
editVars == <<edit, opts, focused, label, reported, strayed>>

NoOffset == -1
Mods == [shift : BOOLEAN, ctrl : BOOLEAN]

----------------------------------------------------------------------------
\* The selection

HasSelect(e) == 0 <= e.selectBegin /\ 0 <= e.selectEnd /\ e.selectBegin < e.selectEnd

ClearSelect(e) == [e EXCEPT !.selectBegin = NoOffset, !.selectEnd = NoOffset]

RemoveSelectedText(e) ==
  IF HasSelect(e)
  THEN ClearSelect([e EXCEPT !.text = Bytes(@, 0, e.selectBegin) \o Bytes(@, e.selectEnd, Len(@)),
                             !.cursor = e.selectBegin])
  ELSE e

InsertText(e, s) ==
  [e EXCEPT !.text = Bytes(@, 0, e.cursor) \o s \o Bytes(@, e.cursor, Len(@)),
            !.cursor = @ + Len(s)]

UpdateCursor(e) == [e EXCEPT !.cursor = IF @ > Len(e.text) THEN Len(e.text) ELSE @]

----------------------------------------------------------------------------
\* Where the cursor moves: std::string's find functions on one byte

FindLast(s, pos, Hit(_)) ==
  LET hits == {p \in 0 .. Len(s) - 1 : p <= pos /\ Hit(s[p + 1])}
  IN  IF hits = {} THEN NPos ELSE CHOOSE p \in hits : \A q \in hits : q <= p
FindFirst(s, pos, Hit(_)) ==
  LET hits == {p \in 0 .. Len(s) - 1 : p >= pos /\ Hit(s[p + 1])}
  IN  IF hits = {} THEN NPos ELSE CHOOSE p \in hits : \A q \in hits : p <= q

IsSpace(b) == b = Space
NotSpace(b) == b # Space
IsNewline(b) == b = Newline

\* find_last_of includes the byte at the cursor: on a newline this is past it
MoveLineBackwards(e) ==
  IF e.cursor = 0 THEN 0 ELSE FindLast(e.text, e.cursor, IsNewline) + 1
MoveLineForwards(e) ==
  LET nl == FindFirst(e.text, e.cursor, IsNewline) IN IF nl = NPos THEN Len(e.text) ELSE nl
MoveWordBackwards(e) ==
  LET word == FindLast(e.text, e.cursor - 1, NotSpace)
  IN  IF e.cursor = 0 THEN 0
      ELSE FindLast(e.text, IF word = NPos THEN 0 ELSE word, IsSpace) + 1
MoveWordForwards(e) ==
  LET word == FindFirst(e.text, e.cursor, NotSpace)
      gap  == FindFirst(e.text, IF word = NPos THEN Len(e.text) ELSE word + 1, IsSpace)
  IN  IF gap = NPos THEN Len(e.text) ELSE gap
\* Seeded fault: Left and Backspace step one byte.
MoveCharBackwardsByte(e) == IF e.cursor = 0 THEN 0 ELSE e.cursor - 1

MoveCharBackwards(e) ==
  IF e.cursor = 0 THEN 0 ELSE e.cursor - CodepointLenBefore(e.text, e.cursor)
MoveCharForwards(e) == e.cursor + CodepointLen(e.text, e.cursor, Len(e.text) - e.cursor)

----------------------------------------------------------------------------
\* The label, and where a point on it falls

SrcToDisplay(e, o, src) == IF o.password THEN OffsetToUTF8Len(e.text, src) ELSE src
DisplayToSrc(e, o, d) == IF o.password THEN Utf8ToOffset(e.text, d) ELSE d

\* updateLabel: the text, or one star a character, with the preedit inserted
LabelOf(e, o) ==
  LET base == IF o.password THEN [i \in 1 .. CodepointCount(e.text) |-> "*"] ELSE e.text
      at   == SrcToDisplay(e, o, e.cursor)
  IN  [child  |-> IF e.text = <<>> THEN "placeholder" ELSE "text",
       line   |-> Bytes(base, 0, at) \o e.imText \o Bytes(base, at, Len(base)),
       symbol |-> IF o.eyeIcon THEN (IF o.password THEN "shut" ELSE "open") ELSE "none"]

\* STextImpl::vecToOffset: nothing, or pango's index plus its trailing count, which
\* is 1 on the right half of a character however many bytes that has
VecToOffset(shown) ==
  {NoOffset} \cup {index + trailing : index \in Boundaries(shown.line) \ {Len(shown.line)},
                                  trailing \in {0, 1}}

OnCharacter(s, o) == o \in Boundaries(s)

Strays(e) == OnCharacter(edit.text, edit.cursor) /\ ~OnCharacter(e.text, e.cursor)

\* A call of the handler that ends in updateCursor
Move(e) ==
  /\ edit' = UpdateCursor(e)
  /\ UNCHANGED <<opts, focused, label, reported, strayed>>

\* The same, where the position was taken from a point on the label
MoveToPoint(e) ==
  /\ edit' = UpdateCursor(e)
  /\ strayed' = (strayed \/ Strays(edit'))
  /\ UNCHANGED <<opts, focused, label, reported>>

\* A call of the handler that ends in updateLabel(true): the application is told
Edited(e) ==
  /\ Len(e.text) <= MaxBytes
  /\ edit' = UpdateCursor(e)
  /\ label' = LabelOf(e, opts)
  /\ reported' = e.text
  /\ UNCHANGED <<opts, focused>>

----------------------------------------------------------------------------
\* The keys.  They reach the box while it has the keyboard.

\* Seeded fault: the second end follows the cursor whichever end was there.
ExtendSelectEnd(e, old, first, second) ==
  IF HasSelect(e)
  THEN [e EXCEPT !.selectBegin = IF e.cursor < @ THEN e.cursor ELSE @,
                 !.selectEnd = IF e.cursor < e.selectBegin THEN e.selectBegin ELSE e.cursor]
  ELSE [e EXCEPT !.selectBegin = first, !.selectEnd = second]

\* The shift branch of the arrow keys: the end of the selection that was at the
\* old cursor follows the cursor, then the ends are put in order
ExtendSelect(e, old, first, second) ==
  LET b == IF old = e.selectEnd THEN e.selectBegin ELSE e.cursor
      n == IF old = e.selectEnd THEN e.cursor ELSE e.selectEnd
  IN  IF HasSelect(e)
      THEN [e EXCEPT !.selectBegin = IF b < n THEN b ELSE n, !.selectEnd = IF b < n THEN n ELSE b]
      ELSE [e EXCEPT !.selectBegin = first, !.selectEnd = second]

\* The end of the handlers of Left and Up, and of Right and Down
ArrowBack(e, old, shift) ==
  IF shift THEN ExtendSelect(e, old, e.cursor, old)
  ELSE IF HasSelect(e) THEN ClearSelect([e EXCEPT !.cursor = e.selectBegin]) ELSE e
ArrowForth(e, old, shift) ==
  IF shift THEN ExtendSelect(e, old, old, e.cursor)
  ELSE IF HasSelect(e) THEN ClearSelect([e EXCEPT !.cursor = e.selectEnd]) ELSE e

KeyLeft(mods) ==
  /\ focused /\ edit.cursor > 0
  /\ LET to == IF mods.ctrl THEN MoveWordBackwards(edit) ELSE MoveCharBackwards(edit)
     IN  Move(ArrowBack([edit EXCEPT !.cursor = to], edit.cursor, mods.shift))

KeyRight(mods) ==
  /\ focused /\ edit.cursor # Len(edit.text)
  /\ LET to == IF mods.ctrl THEN MoveWordForwards(edit) ELSE MoveCharForwards(edit)
     IN  Move(ArrowForth([edit EXCEPT !.cursor = to], edit.cursor, mods.shift))

\* One line up or down: the character the layout finds there, if it finds one
Vertical(hit) ==
  [edit EXCEPT !.cursor = IF hit = NoOffset THEN @
                          ELSE LET src == DisplayToSrc(edit, opts, hit)
                               IN  IF src > Len(edit.text) THEN Len(edit.text) ELSE src]

KeyUp(shift) ==
  /\ focused /\ opts.multiline
  /\ \E hit \in VecToOffset(label) :
       /\ hit <= SrcToDisplay(edit, opts, edit.cursor)
       /\ MoveToPoint(ArrowBack(Vertical(hit), edit.cursor, shift))

KeyDown(shift) ==
  /\ focused /\ opts.multiline
  /\ \E hit \in VecToOffset(label) :
       /\ hit = NoOffset \/ hit >= SrcToDisplay(edit, opts, edit.cursor)
       /\ MoveToPoint(ArrowForth(Vertical(hit), edit.cursor, shift))

KeyHome == focused /\ Move(ClearSelect([edit EXCEPT !.cursor = 0]))
KeyEnd  == focused /\ Move(ClearSelect([edit EXCEPT !.cursor = Len(edit.text)]))

KeySelectAll ==
  /\ focused
  /\ Move([edit EXCEPT !.selectBegin = 0, !.selectEnd = Len(edit.text), !.cursor = Len(edit.text)])

\* Escape gives the keyboard back to the window
KeyEscape ==
  /\ focused
  /\ focused' = FALSE
  /\ edit' = ClearSelect(edit)
  /\ UNCHANGED <<opts, label, reported, strayed>>

KeyBackspace(mods) ==
  /\ focused /\ edit.cursor > 0
  /\ LET to == IF mods.ctrl /\ mods.shift THEN MoveLineBackwards(edit)
               ELSE IF mods.ctrl THEN MoveWordBackwards(edit) ELSE MoveCharBackwards(edit)
         e  == IF HasSelect(edit) THEN edit
               ELSE [edit EXCEPT !.selectBegin = to, !.selectEnd = edit.cursor, !.cursor = to]
     IN  Edited(RemoveSelectedText(e))
  /\ UNCHANGED strayed

KeyDelete(mods) ==
  /\ focused /\ edit.cursor # Len(edit.text)
  /\ LET to == IF mods.ctrl /\ mods.shift THEN MoveLineForwards(edit)
               ELSE IF mods.ctrl THEN MoveWordForwards(edit) ELSE MoveCharForwards(edit)
         e  == IF HasSelect(edit) THEN edit
               ELSE [edit EXCEPT !.selectBegin = edit.cursor, !.selectEnd = to]
     IN  Edited(RemoveSelectedText(e))
  /\ UNCHANGED strayed

\* Seeded fault: Ctrl+X refreshes the label without telling the application.
KeyCutSilent ==
  /\ focused /\ HasSelect(edit)
  /\ edit' = RemoveSelectedText(edit)
  /\ label' = LabelOf(edit', opts)
  /\ UNCHANGED <<opts, focused, reported, strayed>>

KeyCut ==
  /\ focused /\ HasSelect(edit)
  /\ Edited(RemoveSelectedText(edit))
  /\ UNCHANGED strayed

\* A single-line box keeps the clipboard's text up to its first newline
PastedText(s) ==
  LET nl == FindFirst(s, 0, IsNewline)
  IN  IF opts.multiline \/ nl = NPos THEN s ELSE Bytes(s, 0, nl)

KeyPaste(s) ==
  /\ focused /\ s # <<>>
  /\ Edited(InsertText(RemoveSelectedText(edit), PastedText(s)))
  /\ UNCHANGED strayed

TypeText(s) ==
  /\ focused /\ s # <<>>
  /\ s = <<Newline>> => opts.multiline
  /\ Edited(InsertText(RemoveSelectedText(edit), s))
  /\ UNCHANGED strayed

EditKeys ==
  \/ \E mods \in Mods : KeyLeft(mods) \/ KeyRight(mods) \/ KeyBackspace(mods) \/ KeyDelete(mods)
  \/ \E shift \in BOOLEAN : KeyUp(shift) \/ KeyDown(shift)
  \/ KeyHome \/ KeyEnd \/ KeySelectAll \/ KeyEscape \/ KeyCut
  \/ \E s \in Pasted : KeyPaste(s)
  \/ \E s \in Typed : TypeText(s)

----------------------------------------------------------------------------
\* The pointer, the focus and the input method

FocusCursorAtClickedChar ==
  \E hit \in VecToOffset(label) :
    LET to == IF hit = NoOffset THEN Len(edit.text) ELSE DisplayToSrc(edit, opts, hit)
    IN  MoveToPoint(ClearSelect(UpdateCursor([edit EXCEPT !.cursor = to])))

\* A press on the eye shows or hides the password
ClickEye ==
  /\ opts.eyeIcon
  /\ opts' = [opts EXCEPT !.password = ~@]
  /\ label' = LabelOf(edit, opts')
  /\ edit' = UpdateCursor(edit)
  /\ UNCHANGED <<focused, reported, strayed>>

BoxEnter ==
  /\ ~focused
  /\ focused' = TRUE
  /\ UNCHANGED <<edit, opts, label, reported, strayed>>
BoxLeave ==
  /\ focused
  /\ focused' = FALSE
  /\ UNCHANGED <<edit, opts, label, reported, strayed>>

ImCommitNewText(s) ==
  /\ focused
  /\ edit' = UpdateCursor([edit EXCEPT !.imText = s])
  /\ label' = LabelOf([edit EXCEPT !.imText = s], opts)
  /\ UNCHANGED <<opts, focused, reported, strayed>>

\* The preedit goes in at the cursor; a selection is left as it is
ImApplyText ==
  /\ focused
  /\ Edited([InsertText(edit, edit.imText) EXCEPT !.imText = <<>>])
  /\ strayed' = (strayed \/ (HasSelect(edit) /\ edit.imText # <<>>))

----------------------------------------------------------------------------
\* The application

\* Seeded fault: the selection survives the text it was in.
ReplacedUnderSelection(e, text) == UpdateCursor([e EXCEPT !.text = text])

\* The text and the options are replaced: the cursor is cut to the new length
Replaced(e, text) ==
  IF e.text = text THEN e
  ELSE ClearSelect(UpdateCursor([e EXCEPT !.text = text]))

SetText(text) ==
  /\ text # edit.text
  /\ edit' = Replaced(edit, text)
  /\ label' = LabelOf(edit', opts)
  /\ reported' = text
  /\ strayed' = (strayed \/ Strays(edit'))
  /\ UNCHANGED <<opts, focused>>

SetPassword(password) ==
  /\ password # opts.password
  /\ opts' = [opts EXCEPT !.password = password]
  /\ label' = LabelOf(edit, opts')
  /\ edit' = UpdateCursor(edit)
  /\ UNCHANGED <<focused, reported, strayed>>

\* rebuild()->...->commence(): replaceData, which also drops the preedit and makes
\* or removes the eye
ReplaceData(text, password) ==
  /\ opts' = [opts EXCEPT !.password = password, !.eyeIcon = password]
  /\ edit' = IF text = edit.text THEN edit ELSE [Replaced(edit, text) EXCEPT !.imText = <<>>]
  /\ label' = LabelOf(edit', opts')
  /\ reported' = text
  /\ strayed' = (strayed \/ Strays(edit'))
  /\ UNCHANGED focused

EditInit ==
  /\ \E text \in AppTexts :
       /\ edit = [text |-> text, cursor |-> 0, selectBegin |-> NoOffset, selectEnd |-> NoOffset,
                  imText |-> <<>>]
       /\ reported = text
  /\ opts \in {o \in [multiline : BOOLEAN, password : BOOLEAN, eyeIcon : BOOLEAN] :
                 o.password = o.eyeIcon /\ ~(o.password /\ o.multiline)}
  /\ focused = FALSE
  /\ label = LabelOf(edit, opts)
  /\ strayed = FALSE

ApplicationEdits ==
  \/ \E text \in AppTexts : SetText(text) \/ \E password \in BOOLEAN : ReplaceData(text, password)
  \/ \E password \in BOOLEAN : SetPassword(password)

Seat ==
  \/ FocusCursorAtClickedChar \/ ClickEye \/ BoxEnter \/ BoxLeave
  \/ ImApplyText \/ \E s \in Preedits \cup {<<>>} : ImCommitNewText(s)

EditNext == EditKeys \/ Seat \/ ApplicationEdits

EditSpec == EditInit /\ [][EditNext]_editVars

----------------------------------------------------------------------------
\* The substr and insert calls of the next key never go out of range (they would
\* throw): cursor and selection stay within the text, whoever changes the text.
EditingInBounds ==
  /\ edit.cursor \in 0 .. Len(edit.text)
  /\ HasSelect(edit) => edit.selectEnd <= Len(edit.text)

\* Nothing but a click or an Up or Down that hits the right half of a wide character,
\* a text cut to a shorter one under the cursor and a preedit applied under a
\* selection leaves a character boundary: keys, words, lines, cuts and pastes keep the text well
\* formed and the cursor and both ends of the selection between characters.
CursorOnCharacter ==
  ~strayed => /\ WellFormed(edit.text)
              /\ OnCharacter(edit.text, edit.cursor)
              /\ HasSelect(edit) => /\ OnCharacter(edit.text, edit.selectBegin)
                                    /\ OnCharacter(edit.text, edit.selectEnd)

\* The end of the selection that the cursor is not at
Anchor(e) == IF e.cursor = e.selectEnd THEN e.selectBegin ELSE e.selectEnd

\* From one state to the next, while nothing strays and the text stays
SpansAnchor ==
  (~strayed' /\ HasSelect(edit) /\ HasSelect(edit)' /\ edit'.text = edit.text)
    => \/ {edit'.selectBegin, edit'.selectEnd} = {Anchor(edit), edit'.cursor}
       \/ edit'.selectBegin = 0 /\ edit'.selectEnd = Len(edit.text)

\* A selection runs from where it was begun to the cursor: as long as it lasts,
\* the end away from the cursor stays where it is, whichever way the cursor goes
\* and whichever end it crosses (only Ctrl+A replaces it).
SelectionSpansAnchor == [][SpansAnchor]_editVars

\* The application always knows the text: it was told, or it set it.
EditsAreReported == reported = edit.text

\* The walks of UTF8.cpp agree with the characters of every text that occurs:
\* lengths, both conversions, substrings and the four searches.
WalksCountCharacters ==
  LET s == edit.text
      cs == Characters(s)
      bs == Boundaries(s)
      Same(found, want) == IF want = {} THEN found = NPos ELSE found \in want
  IN  WellFormed(s) =>
        /\ CodepointCount(s) = Len(cs)
        /\ \A o \in bs : Utf8ToOffset(s, OffsetToUTF8Len(s, o)) = o
        /\ \A i \in 1 .. Len(cs) : \A n \in 0 .. Len(cs) - i + 1 :
             Characters(Substr(s, i - 1, n)) = SubSeq(cs, i, i + n - 1)
        /\ \A o \in bs, ch \in Typed \cup {cs[i] : i \in 1 .. Len(cs)} :
             LET on    == {p \in bs \ {Len(s)} : cs[BegunBefore(s, p) + 1] = ch}
                 off   == (bs \ {Len(s)}) \ on
                 FirstOf(h) == {p \in h : p >= o /\ \A q \in h : q >= o => p <= q}
                 LastOf(h)  == {p \in h : p < o /\ \A q \in h : q < o => q <= p}
             IN  /\ Same(FindFirstOf(s, ch, o), FirstOf(on))
                 /\ Same(FindFirstNotOf(s, ch, o), FirstOf(off))
                 /\ Same(FindLastOf(s, ch, o), LastOf(on))
                 /\ Same(FindLastNotOf(s, ch, o), LastOf(off))
=============================================================================
