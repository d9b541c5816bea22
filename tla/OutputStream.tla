---------------------------- MODULE OutputStream ----------------------------
(***************************************************************************)
(* utilities/ostream.hpp and ostream.cpp: the formatting operations of     *)
(* outputStream over its three targets.                                    *)
(*   string  stringStream: a buffer of its own that grows, or the caller's *)
(*   file    fileStream: a FILE it opened, or the caller's; the C library  *)
(*           buffers what is written and hands it on when it likes         *)
(*   fd      fdStream: the system call, which may take less than it is     *)
(*           given                                                         *)
(*                                                                         *)
(* The caller keeps one rule the code relies on and does not check: what   *)
(* print formats fits into its local array of PrintSize characters.        *)
(***************************************************************************)
EXTENDS Integers, Sequences, SequencesExt

CONSTANTS
    Newline, Tab, Blank, NUL,  \* '\n', '\t', ' ' and '\0'
    Letters,     \* all other characters
    Raw,         \* a character of memory nobody has written yet
    Strings,     \* what callers print: a bound
    OwnedSize,   \* the size a stream gives its own buffer (1024)
    FixedSizes,  \* the sizes of buffers callers bring along
    PrintSize,   \* the size of the local array of vprint (1024)
    TabStop,     \* 8
    MaxText,     \* a bound on the text, on columns and on the indentation
    MaxDevice    \* the same for files and descriptors

Chars == Letters \cup {Newline, Tab, Blank}

ASSUME CharsAssumption ==
    /\ {NUL, Raw} \cap Chars = {}
    /\ Strings \subseteq Seq(Chars)
ASSUME SizesAssumption ==
    /\ OwnedSize \in Nat \ {0}
    /\ FixedSizes \subseteq Nat
    /\ TabStop \in Nat \ {0}

VARIABLES
    kind,         \* which of the three classes
    stream,       \* _buffer, _buffer_pos and _position; what the C library
                  \* holds back, what the device has, whether it lost something;
                  \* how many buffers and files the stream has to give back
    indentation,  \* _indentation
    owns,         \* _owns_buffer, _need_close
    open,         \* _file != nullptr, _fd >= 0
    alive,        \* whether the destructor has not run
    hung,         \* whether a call never returned
    wrote,        \* history: what was written since the last reset or set_fd
    origin        \* history: _position when that began

vars == <<kind, stream, indentation, owns, open, alive, hung, wrote, origin>>

buffer_size == Len(stream.buffer)
Bound == IF kind = "string" THEN MaxText ELSE MaxDevice
Usable == alive /\ ~hung

-----------------------------------------------------------------------------
(* The column *)

(* update_position, one character. *)
Advance(p, ch) ==
    IF ch = Newline THEN 0
    ELSE IF ch = Tab THEN ((p \div TabStop) + 1) * TabStop
    ELSE p + 1
update_position(p, s) ==
    LET column[i \in 0..Len(s)] == IF i = 0 THEN p ELSE Advance(column[i - 1], s[i])
    IN  column[Len(s)]

(* The column after s. Mutant: every character takes one.                  *)
Column_CountsCharacters(st, s) == st.position + Len(s)
Column(st, s) == update_position(st.position, s)

-----------------------------------------------------------------------------
(* stringStream::write *)

(* A size n doubled once, twice and so on. *)
Doublings(n, times) ==
    LET size[k \in 0..times] == IF k = 0 THEN n ELSE 2 * size[k - 1]
    IN  {size[k] : k \in 1..times}

(* The size of the buffer that replaces one of size n when need characters *)
(* are to fit. Mutant: room for them, but not for a terminator.            *)
Enlarged_NoTerminator(n, need) == Min({m \in Doublings(n, need + 1) : m >= need})
Enlarged(n, need) == Min({m \in Doublings(n, need + 1) : m > need})

(* Mutant: the whole rest of the buffer is used. *)
Cut_ToEnd(st, s) == SubSeq(s, 1, Len(st.buffer) - st.pos)
Cut(st, s) == SubSeq(s, 1, Len(st.buffer) - st.pos - 1)

(* The buffer after memcpy of s and its terminator. Mutant: none is put.   *)
Stored_NoTerminator(buffer, pos, s) ==
    [i \in 1..Len(buffer) |-> IF i \in pos + 1 .. pos + Len(s) THEN s[i - pos] ELSE buffer[i]]
Stored(buffer, pos, s) ==
    [i \in 1..Len(buffer) |-> IF i \in pos + 1 .. pos + Len(s) THEN s[i - pos]
                              ELSE IF i = pos + Len(s) + 1 THEN NUL ELSE buffer[i]]

Store(st, buffer, s) ==
    [st EXCEPT !.buffer = Stored(buffer, st.pos, s), !.pos = @ + Len(s), !.position = Column(st, s)]

(* What is left to give back after FreeHeap or fclose. Mutant: the call is *)
(* forgotten.                                                              *)
GivenBack_Not(n) == n
GivenBack(n) == n - 1

(* The larger buffer: of the old one, only the text is copied. *)
Copied(st, n) == [i \in 1..n |-> IF i <= st.pos THEN st.buffer[i] ELSE Raw]
Grown(st, need) ==
    [st EXCEPT !.buffer = Copied(st, Enlarged(Len(st.buffer), need)), !.held = GivenBack(@ + 1)]

(* When there is no room for s and a terminator, a buffer of its own grows *)
(* and one of fixed size takes what still fits.                            *)
WriteString(st, s) ==
    LET need == st.pos + Len(s)
        large == Grown(st, need)
    IN  IF need < Len(st.buffer) THEN Store(st, st.buffer, s)
        ELSE IF owns THEN Store(large, large.buffer, s)
        ELSE IF Cut(st, s) = <<>> THEN st ELSE Store(st, st.buffer, Cut(st, s))

(* Looking for a larger size, it doubles 0 for ever. *)
Hangs == kind = "string" /\ buffer_size = 0

-----------------------------------------------------------------------------
(* write, of all streams: the streams that a call may leave. *)

(* fwrite *)
WriteFile(st, s) == [st EXCEPT !.pending = @ \o s, !.position = Column(st, s)]

(* ::write takes the first n characters; its result is not looked at. *)
WriteFd(st, s, n) ==
    [st EXCEPT !.device = @ \o SubSeq(s, 1, n), !.lost = @ \/ n < Len(s), !.position = Column(st, s)]

write(st, s) ==
    CASE kind = "string"            -> {WriteString(st, s)}
      [] kind # "string" /\ ~open  -> {st}
      [] kind = "file" /\ open     -> {WriteFile(st, s)}
      [] kind = "fd" /\ open       -> {WriteFd(st, s, n) : n \in 0..Len(s)}

writes(S, s) == UNION {write(st, s) : st \in S}

cr(S) == {[st EXCEPT !.position = 0] : st \in writes(S, <<Newline>>)}

(* sp: one write for each blank. *)
Blanks(n) == [i \in 1..n |-> Blank]
sp(n) ==
    LET after[i \in 0..n] == IF i = 0 THEN {stream} ELSE writes(after[i - 1], <<Blank>>)
    IN  after[n]

-----------------------------------------------------------------------------
(* Calls: the streams they may leave, and all that their writes write.     *)

Call(outcomes, s) ==
    /\ Usable
    /\ Len(wrote) + Len(s) <= Bound
    /\ IF Hangs
       THEN hung' = TRUE /\ UNCHANGED <<stream, wrote>>
       ELSE /\ stream' \in outcomes
            /\ stream'.position <= Bound
            /\ wrote' = IF open THEN wrote \o s ELSE wrote
            /\ UNCHANGED hung
    /\ UNCHANGED <<kind, owns, open, alive, origin>>

(* print, vprint: an empty result is not written. *)
print(s) ==
    /\ Len(s) \in 1 .. PrintSize - 1
    /\ Call(write(stream, s), s)
    /\ UNCHANGED indentation

(* print_raw, put *)
print_raw(s) == Call(write(stream, s), s) /\ UNCHANGED indentation

(* cr, and print_cr of nothing. *)
newline == Call(cr({stream}), <<Newline>>) /\ UNCHANGED indentation

(* print_raw_cr, and print_cr and vprint_cr of a result that is not empty. *)
print_raw_cr(s) == Call(cr(write(stream, s)), Append(s, Newline)) /\ UNCHANGED indentation

(* bol: a new line unless one has just begun. *)
bol == stream.position > 0 /\ newline

fill_to(col) ==
    LET need == Max({col - stream.position, 0})
    IN  need > 0 /\ Call(sp(need), Blanks(need)) /\ UNCHANGED indentation

indent ==
    /\ indentation > 0
    /\ Call(sp(indentation), Blanks(indentation))
    /\ UNCHANGED indentation

(* inc, dec and set_indentation, which may go below 0; inc_cr and dec_cr   *)
(* also end the line.                                                      *)
set_indentation(i) ==
    /\ Usable
    /\ indentation' = i
    /\ UNCHANGED <<kind, stream, owns, open, alive, hung, wrote, origin>>
inc_cr(i) == indentation' = i /\ Call(cr({stream}), <<Newline>>)

(* stringStream *)
reset ==
    /\ Usable
    /\ kind = "string"
    /\ stream' = [stream EXCEPT !.pos = 0]
    /\ wrote' = <<>>
    /\ origin' = stream.position
    /\ UNCHANGED <<kind, indentation, owns, open, alive, hung>>

(* The characters of the copy. *)
as_string == SubSeq(stream.buffer, 1, stream.pos + 1)

(* fileStream *)
flush ==
    /\ Usable
    /\ kind = "file" /\ open
    /\ stream' = [stream EXCEPT !.device = @ \o stream.pending, !.pending = <<>>]
    /\ UNCHANGED <<kind, indentation, owns, open, alive, hung, wrote, origin>>

(* fdStream: another device, or none. *)
set_fd ==
    /\ Usable
    /\ kind = "fd"
    /\ open' \in BOOLEAN
    /\ stream' = [stream EXCEPT !.device = <<>>, !.lost = FALSE]
    /\ wrote' = <<>>
    /\ origin' = stream.position
    /\ UNCHANGED <<kind, indentation, owns, alive, hung>>

(* The destructor frees the buffer, or closes the file; fclose writes what *)
(* the C library held back. Mutant: the file is left to the C library.     *)
Destroyed_NoClose(st) ==
    IF ~owns THEN st ELSE [st EXCEPT !.held = GivenBack(@)]
Destroyed(st) ==
    IF ~owns THEN st
    ELSE [st EXCEPT !.device = @ \o st.pending, !.pending = <<>>, !.held = GivenBack(@)]

Destroy ==
    /\ Usable
    /\ alive' = FALSE
    /\ stream' = Destroyed(stream)
    /\ UNCHANGED <<kind, indentation, owns, open, hung, wrote, origin>>

-----------------------------------------------------------------------------
(* The C library writes some of what it holds back, or fails and drops it. *)

Transfer ==
    /\ \E n \in 1..Len(stream.pending) :
          stream' = [stream EXCEPT !.device = @ \o SubSeq(stream.pending, 1, n),
                                   !.pending = SubSeq(@, n + 1, Len(@))]
    /\ UNCHANGED <<kind, indentation, owns, open, alive, hung, wrote, origin>>

Lose ==
    /\ stream.pending # <<>>
    /\ stream' = [stream EXCEPT !.pending = <<>>, !.lost = TRUE]
    /\ UNCHANGED <<kind, indentation, owns, open, alive, hung, wrote, origin>>

-----------------------------------------------------------------------------
(* The constructors: the fields they set, with a buffer of n characters.   *)
(* fopen may fail, and fileStream() and fdStream() have no target. A       *)
(* string stream always has one.                                           *)

stringStream(n) == kind = "string" /\ open /\ IF owns THEN n = OwnedSize ELSE n \in FixedSizes
fileStream(n) == kind = "file" /\ n = 0 /\ (owns => open)
fdStream(n) == kind = "fd" /\ n = 0 /\ ~owns

Init ==
    /\ owns \in BOOLEAN
    /\ open \in BOOLEAN
    /\ \E n \in {0, OwnedSize} \cup FixedSizes :
          /\ stream = [buffer |-> [i \in 1..n |-> Raw], pos |-> 0, position |-> 0,
                       pending |-> <<>>, device |-> <<>>, lost |-> FALSE,
                       held |-> IF owns THEN 1 ELSE 0]
          /\ stringStream(n) \/ fileStream(n) \/ fdStream(n)
    /\ indentation = 0
    /\ alive = TRUE
    /\ hung = FALSE
    /\ wrote = <<>>
    /\ origin = 0

Halted == ~Usable /\ UNCHANGED vars

Next ==
    \/ \E s \in Strings : print(s) \/ print_raw(s) \/ print_raw_cr(s)
    \/ newline
    \/ bol
    \/ \E col \in 1..Bound : fill_to(col)
    \/ indent
    \/ \E i \in -1..Bound : set_indentation(i)
    \/ \E i \in {indentation - 1, indentation + 1} \cap -1..Bound : inc_cr(i)
    \/ reset \/ flush \/ set_fd
    \/ Destroy
    \/ Transfer \/ Lose
    \/ Halted

Spec == Init /\ [][Next]_vars

-----------------------------------------------------------------------------
(* Properties *)

(* Type invariant. *)
TypeOK ==
    /\ kind \in {"string", "file", "fd"}
    /\ stream \in [buffer : Seq(Chars \cup {NUL, Raw}), pos : Nat, position : Nat,
                   pending : Seq(Chars), device : Seq(Chars), lost : BOOLEAN, held : Nat]
    /\ buffer_size > 0 => stream.pos < buffer_size
    /\ indentation \in Int
    /\ {owns, open, alive, hung} \subseteq BOOLEAN
    /\ wrote \in Seq(Chars)
    /\ origin \in Nat

(* A string stream holds what was written since the last reset, in order,  *)
(* however often its buffer was replaced; a buffer of fixed size holds as  *)
(* much of the beginning as leaves room for a terminator.                  *)
TextKept ==
    kind = "string" /\ alive =>
        SubSeq(stream.buffer, 1, stream.pos) =
            IF owns THEN wrote ELSE SubSeq(wrote, 1, Min({Len(wrote), buffer_size - 1}))

(* Once a string stream holds text, base() and as_string() end where it    *)
(* ends, not in what an earlier, longer text left behind. Of a stream with *)
(* no text nothing is claimed: reset() does not touch the buffer, so they  *)
(* give an older text without its end, or memory nobody has written.       *)
Terminated == alive /\ stream.pos > 0 => as_string[stream.pos + 1] = NUL

(* _position is the column that the text since the last reset or set_fd    *)
(* leads to, whatever part of it the device took, for a stream that has a  *)
(* target and never cuts a newline off.                                    *)
PositionFollows ==
    open /\ (kind = "string" => owns) => stream.position = update_position(origin, wrote)

(* As long as the device fails nobody, it gets what was written, once and  *)
(* in order, but for what the C library still holds back; of a file the    *)
(* stream opened itself, nothing is held back once the stream is gone.     *)
Delivered ==
    kind # "string" /\ ~stream.lost =>
        /\ stream.device \o stream.pending = wrote
        /\ ~alive /\ owns => stream.pending = <<>>

(* A stream has one buffer or file to give back exactly if it allocated or *)
(* opened it, through every growth, and none when it is gone.              *)
Released == stream.held = IF alive /\ owns THEN 1 ELSE 0

(* _position is the position in the current line of the text (ostream.hpp, *)
(* "current line position").                                               *)
PositionIsColumn == kind = "string" /\ owns => stream.position = update_position(0, wrote)
=============================================================================
