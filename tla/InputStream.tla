------------------------------- MODULE InputStream -------------------------------
(***************************************************************************)
(* The half of CStream a script takes a client's packet apart with: one    *)
(* static buffer for the whole plugin, filled by OnClientScriptData before *)
(* the script is called, and read from then on by any script function.     *)
(*                                                                         *)
(* The sizes and positions are of type size_t.  A byte is known by its     *)
(* offset; what the buffer holds beyond the packet is anything.            *)
(***************************************************************************)
EXTENDS Stream

CONSTANTS
    PacketSize, \* sizes of the packets clients send
    Read,       \* the reads scripts use
    Early       \* do scripts read before the first packet?

ASSUME PacketAssumption == PacketSize \subseteq Nat
ASSUME ReadAssumption == Read \subseteq {"byte", "int", "float", "string"}

VARIABLES
    size,    \* inputStreamSize
    pos,     \* inputStreamPosition
    error,   \* inputStreamError
    \* history
    loaded,  \* a packet has come
    touched, \* one past the last byte of the buffer read since LoadInput
    whole    \* no string was returned shorter than the packet declared it

vars == <<size, pos, error, loaded, touched, whole>>

\* The static members before the first packet
Init ==
    /\ size = 0 /\ pos = 0 /\ error = FALSE
    /\ loaded = FALSE /\ touched = 0 /\ whole = TRUE

\* sizeof(T), and of the length of a string
Width(r) == CASE r = "byte" -> 1 [] r = "int" -> 4 [] r = "float" -> 4 [] r = "string" -> 2

Larger(a, b) == IF a < b THEN b ELSE a

-------------------------------------------------------------------------------
\* OnClientScriptData, LoadInput: an empty packet leaves the last one in place,
\* one that is too large leaves nothing to read
Load(n) == [size |-> n, error |-> FALSE]
NoLoad == [size |-> 0, error |-> TRUE]

OnClientScriptData(n) ==
    /\ n > 0
    /\ LET in == IF n > CAP THEN NoLoad ELSE Load(n)
       IN  size' = in.size /\ error' = in.error
    /\ pos' = 0
    /\ loaded' = TRUE
    /\ touched' = 0
    /\ UNCHANGED whole

May == loaded \/ Early

SetReadPosition(p) ==
    /\ May
    /\ \/ p >= 0 /\ p <= size /\ pos' = p /\ UNCHANGED error
       \/ (p < 0 \/ p > size) /\ pos' = size /\ error' = TRUE
    /\ UNCHANGED <<size, loaded, touched, whole>>

\* inputStreamPosition > inputStreamSize - sizeof(T), in the arithmetic of size_t
OutsideIgnoringWidth(k) == pos >= size
Outside(k) == pos > (size - k) % Word

Failed ==
    /\ error' = TRUE
    /\ UNCHANGED <<size, pos, loaded, touched, whole>>

\* ReadByte, ReadInt, ReadFloat; after an error they return 0 and change nothing
ReadValue(r) ==
    /\ May /\ ~error
    /\ r \in Read \ {"string"}
    /\ \/ Outside(Width(r)) /\ Failed
       \/ /\ ~Outside(Width(r))
          /\ pos' = (pos + Width(r)) % Word
          /\ touched' = Larger(touched, pos + Width(r))
          /\ UNCHANGED <<size, error, loaded, whole>>

\* ReadString of a string whose length the packet declares as n
TooLongForPacket(start, n) == n > size
TooLong(start, n) == start > size \/ n > size - start
Copied(n) == Smaller(n, RESULT - 1)

ReadString(n) ==
    /\ May /\ ~error
    /\ "string" \in Read
    /\ LET start == pos + 2
       IN  \/ Outside(2) /\ Failed
           \/ /\ ~Outside(2) /\ TooLong(start, n)
              /\ error' = TRUE
              /\ pos' = start % Word
              /\ touched' = Larger(touched, start)
              /\ UNCHANGED <<size, loaded, whole>>
           \/ /\ ~Outside(2) /\ ~TooLong(start, n)
              /\ pos' = (start + n) % Word
              /\ touched' = Larger(touched, start + n)
              /\ whole' = (whole /\ Copied(n) = n)
              /\ UNCHANGED <<size, error, loaded>>

Next ==
    \/ \E n \in PacketSize : OnClientScriptData(n)
    \/ \E p \in Position : SetReadPosition(p)
    \/ \E r \in Read : ReadValue(r)
    \/ \E n \in Length : ReadString(n)

Spec == Init /\ [][Next]_vars

-------------------------------------------------------------------------------
TypeOK ==
    /\ size \in Nat /\ pos \in 0 .. Word - 1
    /\ error \in BOOLEAN /\ loaded \in BOOLEAN /\ whole \in BOOLEAN
    /\ touched \in Nat

\* Whatever is read in whatever order, with the position moved in between, no
\* read returns bytes from beyond the packet.  Holds if no packet is shorter
\* than the shortest thing a script reads (NoShortPacket) and none is read
\* before the first one has come.
InPacket == touched <= size

\* A string that is returned is the whole string the packet declares: the
\* static buffer ReadString returns is large enough for what a packet can hold.
StringsWhole == whole

\* Every packet is long enough for every read a script uses
NoShortPacket ==
    ~Early /\ \A n \in PacketSize, r \in Read : n > 0 => Width(r) <= n

===============================================================================
