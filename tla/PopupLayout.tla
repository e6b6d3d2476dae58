---------------------------- MODULE PopupLayout ----------------------------
(***************************************************************************)
(* The geometry of the Host's pairing pane                                  *)
(* (crates/herdr-relay/src/popup.rs, `draw` and its helpers): which regions *)
(* a terminal of w columns and h rows gets, how many rows they take, which  *)
(* phone rows are drawn, and how a value wraps.                             *)
(*                                                                         *)
(* A frame is what draw reads:                                              *)
(*   w, h      the rectangle of Frame::area                                 *)
(*   open      the snapshot holds a pairing, expired or not                 *)
(*   view      "none", "registering" or "credential": pairing_view          *)
(*   qr        modules per side of the QR code, 0 when it cannot be encoded *)
(*   n, sel    phones in the snapshot and the selected index                *)
(*   link      the link state                                              *)
(*   notice    a notice line is set                                        *)
(*   relay, phrase   widths of the words of the two values that vary         *)
(* Text is its width in display cells.                                      *)
(***************************************************************************)
EXTENDS Integers, Sequences, SequencesExt, FiniteSetsExt

FloorCols        == 28
PairingFloorRows == 12
IdleFloorRows    == 6
QuietZone        == 4
HandleCells      == 22      \* the routing handle, one unbreakable word

FloorRows(open) == IF open THEN PairingFloorRows ELSE IdleFloorRows

TooSmall(f) == f.w < FloorCols \/ f.h < FloorRows(f.open)

(* -------------------------------------------------------------- wrapping *)

\* wrap_at_spaces: greedy, and a word is never broken.  Walks the words with
\* the width of the row being filled, and counts the rows begun.
WrapRows(words, width) ==
    LET step(acc, word) ==
            IF acc.used > 0 /\ acc.used + 1 + word > width
            THEN [rows |-> acc.rows + 1, used |-> word]
            ELSE [acc EXCEPT !.used = IF @ = 0 THEN word ELSE @ + 1 + word]
    IN  FoldLeft(step, [rows |-> 1, used |-> 0], words).rows

Cells(words) == FoldLeft(+, Len(words) - 1, words)

\* credential_lines: beside its label if it fits there, else below it.
CredentialRows(words, width) ==
    IF 14 + Cells(words) <= width THEN 1
    ELSE 1 + WrapRows(words, Max({width - 6, 1}))

(* --------------------------------------------------------------- regions *)

\* qr_region_size: two module rows to a printed row, two columns of indent.
QrRows(qr) == (qr + 2 * QuietZone + 1) \div 2
QrCols(qr) == qr + 2 * QuietZone + 2

UseEmptyMessage(f) == f.n = 0 /\ f.view = "none" /\ f.link = "idle"

\* The detail slot: stopped, offline, or the selected phone.
HasDetail(f) == f.link \in {"stopped", "offline"} \/ f.sel < f.n

IdleHint(f) == f.view = "none" /\ f.link = "idle" /\ f.n > 0

NoticeRows(f) == IF f.notice \/ IdleHint(f) THEN 1 ELSE 0

\* total_height: what draw believes a set of regions takes.  The phone rows
\* themselves are not counted, and a credential value counts as one row.
TotalHeight(f, r) ==
    2 + (IF f.view = "none" THEN 0 ELSE 2)
      + (IF r.qr THEN QrRows(f.qr) ELSE 0)
      + (IF f.view = "credential" THEN (IF r.qr THEN 5 ELSE 6)
         ELSE IF f.view = "registering" THEN 1 ELSE 0)
      + (IF UseEmptyMessage(f) THEN 2 ELSE 0)
      + (IF r.table THEN 2 ELSE 0)
      + (IF r.detail THEN 3 ELSE 0)
      + 2 + NoticeRows(f)

\* The drop loop: the QR region goes first, the detail second, the table last.
Regions(f) ==
    LET all  == [qr     |-> f.view = "credential" /\ f.qr > 0 /\ QrCols(f.qr) <= f.w,
                 detail |-> HasDetail(f),
                 table  |-> f.n > 0 /\ ~UseEmptyMessage(f)]
        down == << all,
                   [all EXCEPT !.qr = FALSE],
                   [all EXCEPT !.qr = FALSE, !.detail = FALSE] >>
        fits == {i \in 1..3 : TotalHeight(f, down[i]) <= f.h}
    IN  IF fits # {} THEN down[Min(fits)]
        ELSE [qr |-> FALSE, detail |-> FALSE, table |-> FALSE]

\* The lines draw pushes above and below the phone rows.
TopRows(f, r) ==
    2 + (IF f.view = "none" THEN 0 ELSE 2)
      + (IF f.view = "registering" THEN 1 ELSE 0)
      + (IF f.view = "credential"
         THEN (IF r.qr THEN QrRows(f.qr) ELSE 1) + 1
              + CredentialRows(f.relay, f.w)
              + CredentialRows(<<HandleCells>>, f.w)
              + CredentialRows(f.phrase, f.w) + 1
         ELSE 0)
      + (IF UseEmptyMessage(f) THEN 2 ELSE 0)
      + (IF r.table THEN 2 ELSE 0)

BottomRows(f, r) == (IF r.detail THEN 3 ELSE 0) + 2 + NoticeRows(f)

\* What Constraint::Min(0) leaves for the phone rows.
TableRows(f, r) == Max({f.h - TopRows(f, r) - BottomRows(f, r), 0})

\* visible_window, as the first row drawn and the first one not drawn.
VisibleWindow(total, visible, selected) ==
    IF total = 0 \/ visible = 0 THEN [from |-> 0, to |-> 0]
    ELSE LET shown == Min({visible, total})
             start == Min({Max({selected - (shown - 1), 0}), total - shown})
         IN  [from |-> start, to |-> start + shown]

RowDrawn(f, i) ==
    LET r   == Regions(f)
        win == VisibleWindow(f.n, TableRows(f, r), f.sel)
    IN  /\ ~TooSmall(f)
        /\ r.table
        /\ win.from <= i /\ i < win.to

=============================================================================
