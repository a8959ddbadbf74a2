--------------------------------- MODULE Dmesg ---------------------------------
(***************************************************************************)
(* The system log (dmesg.c): entries of variable length in a circular       *)
(* buffer, written by several tasks and listed by the command line.         *)
(*                                                                         *)
(* dmesg.h leaves mutual exclusion to its callers, and they have none.      *)
(* Exclusive says whether calls exclude each other; when they do not, a     *)
(* task is preempted by those of higher priority and takes turns with its   *)
(* equals, at the points where a call reads or writes what the calls share. *)
(*                                                                         *)
(* The header of an entry is one cell, with its length; a byte of text is a *)
(* cell that would pass for a length, as letters do.  Time stamps and       *)
(* statistics, which nothing reads, are left out.                           *)
(***************************************************************************)
EXTENDS Integers, Sequences

CONSTANTS
    DMESG_BUFFER_SIZE,
    DMESG_MSG_MAX_LENGTH,
    Text,          \* the value of a byte of text
    Lengths,       \* of the messages that are written
    MaxWrites,     \* bound: messages written
    SizeModulus,   \* of a size_t
    Margin,        \* evictions allowed above the entries left, 10 in the code
    Writers,       \* tasks that log
    Reader,        \* the command line
    Priority,      \* of each task
    Exclusive      \* the callers keep calls apart

ASSUME DmesgAssumption ==
    /\ DMESG_BUFFER_SIZE \in Nat /\ DMESG_MSG_MAX_LENGTH \in Nat
    /\ SizeModulus \in Nat /\ DMESG_BUFFER_SIZE <= SizeModulus /\ Margin \in Nat
    /\ Lengths \subseteq 1 .. DMESG_MSG_MAX_LENGTH /\ Text \in 1 .. DMESG_MSG_MAX_LENGTH
    /\ DMESG_MSG_MAX_LENGTH + 1 < DMESG_BUFFER_SIZE
    /\ Reader \notin Writers /\ Exclusive \in BOOLEAN

Tasks == Writers \cup {Reader}

VARIABLES
    dmesg_buffer,   \* cells: a byte, and the message and place in it the byte is from
    write_offset, read_offset, log_count,
    call,           \* of each writer: where Dmesg_Write stands, with its locals
    listing,        \* the reader: where it stands, with its locals, and what it has listed
    written,        \* history: the length of each message, by number
    before          \* history: the messages in the log when the write in progress began

offsets == <<write_offset, read_offset, log_count>>
vars == <<dmesg_buffer, offsets, call, listing, written, before>>

Cell(id, at, len) == [byte |-> IF at = 0 THEN len ELSE Text, of |-> id, at |-> at]
Blank == [byte |-> 0, of |-> 0, at |-> 0]
Idle == [pc |-> "idle", id |-> 0, len |-> 0, evictions |-> 0, w_off |-> 0]
NotListing == [pc |-> "idle", offset |-> 0, skip |-> 0, left |-> 0, listed |-> <<>>]

Following(offset, n) == (offset + n) % DMESG_BUFFER_SIZE

ValidLength(n) == n # 0 /\ n <= DMESG_MSG_MAX_LENGTH

get_available_space ==
    IF read_offset <= write_offset
    THEN DMESG_BUFFER_SIZE - (write_offset - read_offset) - 1
    ELSE read_offset - write_offset - 1

\* The message whose entry starts at an offset, or 0 when the cells there are
\* not those of one message.
Message(offset) ==
    LET id == dmesg_buffer[offset].of
        len == dmesg_buffer[offset].byte
        whole == \A i \in 0 .. len :
                    dmesg_buffer[Following(offset, i)] = Cell(id, i, written[id])
    IN  IF id # 0 /\ len = written[id] /\ whole THEN id ELSE 0

\* The messages from read_offset on.
Contents ==
    LET start[k \in 0 .. log_count] ==
            IF k = 0 THEN read_offset
            ELSE LET last == start[k - 1] IN Following(last, 1 + dmesg_buffer[last].byte)
    IN  [k \in 1 .. log_count |-> Message(start[k - 1])]

Busy(t) == IF t = Reader THEN listing.pc # "idle" ELSE call[t].pc # "idle"

\* A task runs when none of higher priority is in a call; it starts a call
\* of its own when calls are not kept apart or no other is in progress.
Runs(t) == \A u \in Tasks : Busy(u) => Priority[u] <= Priority[t]
Enters(t) == ~Busy(t) /\ Runs(t) /\ (Exclusive => \A u \in Tasks : ~Busy(u))

\* Dmesg_Init
Init ==
    /\ dmesg_buffer = [i \in 0 .. DMESG_BUFFER_SIZE - 1 |-> Blank]
    /\ write_offset = 0 /\ read_offset = 0 /\ log_count = 0
    /\ call = [t \in Writers |-> Idle]
    /\ listing = NotListing
    /\ written = <<>> /\ before = <<>>

Dmesg_Write(t) ==
    /\ Enters(t) /\ Len(written) < MaxWrites
    /\ \E len \in Lengths :
        /\ written' = Append(written, len)
        /\ call' = [call EXCEPT ![t] = [Idle EXCEPT !.pc = "room", !.id = Len(written) + 1,
                                                     !.len = len]]
    /\ before' = Contents
    /\ UNCHANGED <<dmesg_buffer, offsets, listing>>

NeedsRoom(t) == get_available_space < 1 + call[t].len /\ log_count > 0

\* evict_oldest_entry: past the oldest entry, or past everything when its
\* length cannot be one.
Evict(t) ==
    /\ call[t].pc = "room" /\ Runs(t) /\ NeedsRoom(t)
    /\ LET length == dmesg_buffer[read_offset].byte IN
       IF ValidLength(length)
       THEN /\ read_offset' = Following(read_offset, 1 + length)
            /\ call' = [call EXCEPT ![t] = [@ EXCEPT !.pc = "evicted"]]
            /\ UNCHANGED log_count
       ELSE /\ read_offset' = write_offset
            /\ log_count' = 0
            /\ call' = [call EXCEPT ![t] = [@ EXCEPT !.pc = "emptied"]]
    /\ UNCHANGED <<dmesg_buffer, write_offset, listing, written, before>>

\* The entry is counted off.  More evictions than Margin above what is left
\* mean a corrupted log to the code, which empties it and gives the message up.
CountEviction(t) ==
    /\ call[t].pc \in {"evicted", "emptied"} /\ Runs(t)
    /\ LET left == IF call[t].pc = "evicted" THEN (log_count - 1) % SizeModulus ELSE log_count
           evictions == call[t].evictions + 1
       IN  IF evictions > left + Margin
           THEN /\ write_offset' = 0 /\ read_offset' = 0 /\ log_count' = 0
                /\ call' = [call EXCEPT ![t] = Idle]
           ELSE /\ log_count' = left
                /\ call' = [call EXCEPT ![t] = [@ EXCEPT !.pc = "room", !.evictions = evictions]]
                /\ UNCHANGED <<write_offset, read_offset>>
    /\ UNCHANGED <<dmesg_buffer, listing, written, before>>

\* Fault: room for the text, not for its header.
Fault_TakeRoom(t) ==
    /\ call[t].pc = "room" /\ Runs(t)
    /\ get_available_space >= call[t].len
    /\ call' = [call EXCEPT ![t] = [@ EXCEPT !.pc = "copy", !.w_off = write_offset]]
    /\ UNCHANGED <<dmesg_buffer, offsets, listing, written, before>>

\* The final space check, which refuses the message, and the load of the offset.
TakeRoom(t) ==
    /\ call[t].pc = "room" /\ Runs(t) /\ ~NeedsRoom(t)
    /\ call' = [call EXCEPT ![t] = IF get_available_space < 1 + call[t].len THEN Idle
                                   ELSE [@ EXCEPT !.pc = "copy", !.w_off = write_offset]]
    /\ UNCHANGED <<dmesg_buffer, offsets, listing, written, before>>

\* Header and text.
CopyEntry(t) ==
    /\ call[t].pc = "copy" /\ Runs(t)
    /\ LET c == call[t] IN
       dmesg_buffer' = [i \in DOMAIN dmesg_buffer |->
            IF \E k \in 0 .. c.len : i = Following(c.w_off, k)
            THEN Cell(c.id, (i - c.w_off) % DMESG_BUFFER_SIZE, c.len) ELSE dmesg_buffer[i]]
    /\ call' = [call EXCEPT ![t] = [@ EXCEPT !.pc = "commit"]]
    /\ UNCHANGED <<offsets, listing, written, before>>

Commit(t) ==
    /\ call[t].pc = "commit" /\ Runs(t)
    /\ write_offset' = Following(call[t].w_off, 1 + call[t].len)
    /\ log_count' = (log_count + 1) % SizeModulus
    /\ call' = [call EXCEPT ![t] = Idle]
    /\ UNCHANGED <<dmesg_buffer, read_offset, listing, written, before>>

\* Dmesg_GetLogs, and Dmesg_GetLatestN: offset and number of entries are read
\* once.
List(skip, left) ==
    /\ Enters(Reader) /\ log_count > 0
    /\ listing' = [pc |-> "entry", offset |-> read_offset, skip |-> skip, left |-> left,
                   listed |-> <<>>]
    /\ UNCHANGED <<dmesg_buffer, offsets, call, written, before>>

Dmesg_GetLogs == List(0, log_count)
Dmesg_GetLatestN == \E n \in 1 .. log_count : List(log_count - n, n)

\* Fault: the rest of a listing starts from the oldest entry again.
Fault_ListEntry ==
    /\ listing.pc = "entry" /\ Runs(Reader) /\ listing.skip + listing.left > 0
    /\ LET length == dmesg_buffer[listing.offset].byte IN
       listing' = [listing EXCEPT !.offset = Following(@, 1 + length),
                                  !.left = @ - 1, !.listed = Append(@, Message(listing.offset))]
    /\ UNCHANGED <<dmesg_buffer, offsets, call, written, before>>

\* One entry, skipped or printed.  Printing takes a while: the log is not read
\* in one go.  An impossible length ends the listing.
ListEntry ==
    /\ listing.pc = "entry" /\ Runs(Reader) /\ listing.skip + listing.left > 0
    /\ LET length == dmesg_buffer[listing.offset].byte
           next == Following(listing.offset, 1 + length)
       IN  listing' =
            IF ~ValidLength(length) THEN NotListing
            ELSE IF listing.skip > 0 THEN [listing EXCEPT !.offset = next, !.skip = @ - 1]
            ELSE [listing EXCEPT !.offset = next, !.left = @ - 1,
                                 !.listed = Append(@, Message(listing.offset))]
    /\ UNCHANGED <<dmesg_buffer, offsets, call, written, before>>

ListEnd ==
    /\ listing.pc = "entry" /\ Runs(Reader) /\ listing.skip + listing.left = 0
    /\ listing' = NotListing
    /\ UNCHANGED <<dmesg_buffer, offsets, call, written, before>>

\* Dmesg_Clear forgets the entries.
Dmesg_Clear ==
    /\ Enters(Reader)
    /\ write_offset' = 0 /\ read_offset' = 0 /\ log_count' = 0
    /\ UNCHANGED <<dmesg_buffer, call, listing, written, before>>

Writing(t) ==
    Dmesg_Write(t) \/ Evict(t) \/ CountEviction(t) \/ TakeRoom(t) \/ CopyEntry(t) \/ Commit(t)

Listing == Dmesg_GetLogs \/ Dmesg_GetLatestN \/ ListEntry \/ ListEnd

Next == (\E t \in Writers : Writing(t)) \/ Listing \/ Dmesg_Clear

Spec == Init /\ [][Next]_vars
--------------------------------------------------------------------------------
Offsets == 0 .. DMESG_BUFFER_SIZE - 1

\* Offsets stay inside the buffer, what is counted in it can be there (the
\* wrapped decrement of log_count does not happen), and what a call holds has
\* its type.
DmesgTypeOK ==
    /\ dmesg_buffer \in [Offsets -> [byte : 0 .. DMESG_MSG_MAX_LENGTH, of : Nat, at : Nat]]
    /\ write_offset \in Offsets /\ read_offset \in Offsets
    /\ log_count \in 0 .. DMESG_BUFFER_SIZE \div 2
    /\ call \in [Writers -> [pc : {"idle", "room", "evicted", "emptied", "copy", "commit"},
                             id : Nat, len : Nat, evictions : Nat, w_off : Offsets]]
    /\ listing \in [pc : {"idle", "entry"}, offset : Offsets, skip : Nat, left : Nat,
                    listed : Seq(Nat)]
    /\ written \in Seq(Lengths) /\ before \in Seq(Nat)

\* Calls that exclude each other keep the promise of MessageLog: entries of
\* any length, evicted one by one and wrapped round the end of the buffer, are
\* the latest messages in order, and are lost together only as it says
\* (dmesg.c:106-177).  During a write the log is what it was when the write
\* began.
Held == IF \E t \in Writers : Busy(t) THEN before ELSE Contents
Finished == IF \E t \in Writers : Busy(t) THEN Len(written) - 1 ELSE Len(written)
LenOf(id) == IF id = 0 THEN 0 ELSE written[id]
LogOf(ids) == [k \in 1 .. Len(ids) |-> [id |-> ids[k], len |-> LenOf(ids[k])]]
Log == INSTANCE MessageLog WITH
    Capacity <- DMESG_BUFFER_SIZE - 1, log <- LogOf(Held), count <- Finished
ImplementsMessageLog == Log!Spec

\* A listing shows the log, from the first entry asked for, in order and
\* without a gap (dmesg.c:293-332, 358-401).
ListsTheLog ==
    listing.pc = "entry" =>
        \A k \in 1 .. Len(listing.listed) :
            listing.listed[k] = Contents[log_count - listing.left - Len(listing.listed) + k]

\* "Caller must ensure thread safety" (dmesg.h:45): every entry listed is one
\* message that some task wrote, whole.
ListsWholeMessages ==
    \A k \in 1 .. Len(listing.listed) : listing.listed[k] # 0
================================================================================
