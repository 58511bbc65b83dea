----------------------------- MODULE ZplPreview -----------------------------
(***************************************************************************)
(* The preview of a label (zebra_day/zpl_renderer.py): the commands of a   *)
(* ZPL text are taken one by one; some of them set what the next fields    *)
(* are drawn with, and each field is drawn at once.  The picture is saved  *)
(* at the end, unless something has raised.                                *)
(* A command is [op, args]: what it starts with, and the tokens after it,  *)
(* of which ";" begins a comment.                                          *)
(***************************************************************************)
EXTENDS Naturals, FiniteSets, Sequences

CONSTANTS
  Labels,      \* the texts: sequences of commands
  Value,       \* the tokens that are numbers, and which
  Unencodable  \* data that no barcode can be made of

ASSUME PreviewAssumption ==
  /\ Labels \subseteq Seq([op : STRING, args : Seq(STRING)])
  /\ \A token \in DOMAIN Value : Value[token] \in Nat

VARIABLES
  label,
  next,      \* the command to be taken
  x, font, width,  \* field origin, height of the font, width of a module
  barcode,   \* the type of the barcode that the next field is to be, or ""
  height,    \* its height
  drawn,     \* what the picture shows
  outcome,   \* "", "saved" or "failed"
  zint, fonts  \* whether the host can draw barcodes, and text

previewVars == <<label, next, x, font, width, barcode, height, drawn, outcome, zint, fonts>>

Rendering(text, hasZint, hasFonts) ==
  /\ label = text /\ next = 1 /\ zint = hasZint /\ fonts = hasFonts
  /\ x = 0 /\ font = 30 /\ width = 2 /\ height = 40 /\ barcode = ""
  /\ drawn = <<>> /\ outcome = ""

PreviewInit ==
  \E text \in Labels, hasZint, hasFonts \in BOOLEAN : Rendering(text, hasZint, hasFonts)

-----------------------------------------------------------------------------
(* Arguments.                                                              *)

\* What is left of the tokens when the comment is stripped.
Kept(args) ==
  LET n == CHOOSE m \in 0..Len(args) :
             /\ \A i \in 1..m : args[i] # ";"
             /\ m < Len(args) => args[m + 1] = ";"
  IN SubSeq(args, 1, n)

\* A number that is not given has a default; one that is none raises.
Raises(args) == Kept(args) # <<>> /\ Kept(args)[1] \notin DOMAIN Value
Number(args, default) == IF Kept(args) = <<>> THEN default ELSE Value[Kept(args)[1]]

AtLeastOne(n) == IF n = 0 THEN 1 ELSE n

\* The height of a barcode has its default then too.
BarcodeHeight(args) == IF Raises(args) THEN 40 ELSE Number(args, 40)

\* Data that ends in FS loses it.
Data(args) ==
  LET kept == Kept(args)
  IN IF kept # <<>> /\ kept[Len(kept)] = "FS" THEN SubSeq(kept, 1, Len(kept) - 1) ELSE kept

-----------------------------------------------------------------------------
(* Commands.                                                               *)

BARCODE_TYPES == {"B3N", "BCN", "BQN", "BXN"}
ORIGINS == {"FO"}
FONTS == {"A0N", "ADN"}
WIDTHS == {"BY"}
FIELDS == {"FD"}

Cmd == label[next]
Takes(ops) == outcome = "" /\ next <= Len(label) /\ Cmd.op \in ops
Advances == next' = next + 1 /\ UNCHANGED <<label, outcome, zint, fonts>>

Fails ==
  /\ outcome' = "failed"
  /\ UNCHANGED <<label, next, x, font, width, barcode, height, drawn, zint, fonts>>

\* The start and the end of a label, the separator of fields, a comment, and
\* whatever the renderer does not know.
Skip ==
  /\ Takes({"XA", "XZ", "FS", "", "GB"}) /\ Advances
  /\ UNCHANGED <<x, font, width, barcode, height, drawn>>

Origin ==
  /\ Takes(ORIGINS) /\ ~Raises(Cmd.args) /\ Advances
  /\ x' = Number(Cmd.args, 0)
  /\ UNCHANGED <<font, width, barcode, height, drawn>>

Font ==
  /\ Takes(FONTS) /\ ~Raises(Cmd.args) /\ Advances
  /\ font' = Number(Cmd.args, 30)
  /\ UNCHANGED <<x, width, barcode, height, drawn>>

Module ==
  /\ Takes(WIDTHS) /\ ~Raises(Cmd.args) /\ Advances
  /\ width' = AtLeastOne(Number(Cmd.args, 2))
  /\ UNCHANGED <<x, font, barcode, height, drawn>>

Malformed == Takes(ORIGINS \cup FONTS \cup WIDTHS) /\ Raises(Cmd.args) /\ Fails

Barcode ==
  /\ Takes(BARCODE_TYPES) /\ Advances
  /\ barcode' = Cmd.op /\ height' = BarcodeHeight(Cmd.args)
  /\ UNCHANGED <<x, font, width, drawn>>

\* A barcode that cannot be made leaves its place empty.
Image(type, data, tall, wide, at) ==
  IF ~zint \/ data \in Unencodable THEN <<>>
  ELSE <<[type |-> type, data |-> data, size |-> <<tall, wide>>, x |-> at]>>

Text(data, tall, at) == <<[type |-> "text", data |-> data, size |-> <<tall>>, x |-> at]>>

\* Mutant: the field after a barcode is one, too.
FieldKeepsBarcode ==
  /\ Takes(FIELDS) /\ (barcode # "" \/ fonts) /\ Advances
  /\ drawn' = drawn \o (IF barcode = "" THEN Text(Data(Cmd.args), font, x)
                        ELSE Image(barcode, Data(Cmd.args), height, width, x))
  /\ UNCHANGED <<x, font, width, height, barcode>>

Field ==
  /\ Takes(FIELDS) /\ (barcode # "" \/ fonts) /\ Advances
  /\ drawn' = drawn \o (IF barcode = "" THEN Text(Data(Cmd.args), font, x)
                        ELSE Image(barcode, Data(Cmd.args), height, width, x))
  /\ barcode' = "" /\ UNCHANGED <<x, font, width, height>>

NoFont == Takes(FIELDS) /\ barcode = "" /\ ~fonts /\ Fails

Save ==
  /\ outcome = "" /\ next > Len(label) /\ outcome' = "saved"
  /\ UNCHANGED <<label, next, x, font, width, barcode, height, drawn, zint, fonts>>

PreviewNext ==
  \/ Skip \/ Origin \/ Font \/ Module \/ Malformed \/ Barcode
  \/ Field \/ NoFont \/ Save

PreviewSpec == PreviewInit /\ [][PreviewNext]_previewVars

-----------------------------------------------------------------------------
(* What a label shows, without a state.                                    *)

Before(k, ops) == {i \in 1..(k - 1) : label[i].op \in ops}
Latest(is) == CHOOSE i \in is : \A j \in is : j <= i

\* The argument of the last command among ops before k.
Setting(k, ops, default) ==
  IF Before(k, ops) = {} THEN default
  ELSE Number(label[Latest(Before(k, ops))].args, default)

\* The barcode commands before k that no field has used up.
Unused(k) == {i \in Before(k, BARCODE_TYPES) : ~\E j \in Before(k, FIELDS) : i < j}

\* What stands for the field k.
Picture(k) ==
  LET code == label[Latest(Unused(k))]
      at == Setting(k, ORIGINS, 0)
  IN IF Unused(k) = {} THEN Text(Data(label[k].args), Setting(k, FONTS, 30), at)
     ELSE Image(code.op, Data(label[k].args), BarcodeHeight(code.args),
                AtLeastOne(Setting(k, WIDTHS, 2)), at)

Shown(k) == IF label[k].op \in FIELDS THEN Picture(k) ELSE <<>>

Unreadable(k) ==
  \/ label[k].op \in ORIGINS \cup FONTS \cup WIDTHS /\ Raises(label[k].args)
  \/ label[k].op \in FIELDS /\ Unused(k) = {} /\ ~fonts

\* The picture has one item of each command that shows something, at its place.
Place(k) == Cardinality({j \in 1..k : Shown(j) # <<>>})

Showing(n) ==
  /\ Len(drawn) = Place(n)
  /\ \A k \in 1..n : Shown(k) # <<>> => drawn[Place(k)] = Shown(k)[1]

PreviewTypeOK ==
  /\ next \in 1..(Len(label) + 1) /\ barcode \in BARCODE_TYPES \cup {""}
  /\ {x, font, width, height} \subseteq Nat /\ width # 0
  /\ \A i \in DOMAIN drawn : drawn[i].type \in BARCODE_TYPES \cup {"text"}
  /\ outcome \in {"", "saved", "failed"}

\* The preview shows the fields.  It is saved exactly if no number in a
\* command is unreadable and a font is there for its texts; then it shows
\* every field once, in their order, at the last origin before it: as a barcode
\* if and only if a barcode command stands between it and the field before,
\* with the last such type and height and the last module width, and else as
\* text in the last font.
PreviewShowsFields ==
  /\ outcome = "saved" =>
       /\ Showing(Len(label))
       /\ \A k \in 1..Len(label) : ~Unreadable(k)
  /\ outcome = "failed" => Unreadable(next)

=============================================================================
