------------------------------ MODULE Assembly ------------------------------
(***************************************************************************)
(* What a chunked upload promises to its clients, without handlers: parts  *)
(* are received once and counted once, and a file is stored in one step,   *)
(* at a moment when its session has as many parts as it needs.             *)
(***************************************************************************)
EXTENDS Integers, FiniteSets

CONSTANTS
    PartNumbers, \* the part numbers that clients send
    SizeOf       \* the size a client states for each part

VARIABLES
    file,     \* the status of the file
    open,     \* whether there is a session
    expected, \* how many parts it needs
    parts,    \* the parts received
    counted,  \* the parts counted
    count,    \* how many those are
    bytes     \* and how long together

session == <<open, expected, parts, counted, count, bytes>>
vars    == <<file, session>>

Empty == expected = 0 /\ parts = {} /\ counted = {} /\ count = 0 /\ bytes = 0

Init == file = "uploading" /\ open = FALSE /\ Empty

Open ==
    /\ file # "gone"
    /\ ~open
    /\ open' = TRUE
    /\ expected' \in Nat
    /\ UNCHANGED <<file, parts, counted, count, bytes>>

Receive(n) ==
    /\ open
    /\ n \notin parts
    /\ parts' = parts \cup {n}
    /\ UNCHANGED <<file, open, expected, counted, count, bytes>>

Count(n) ==
    /\ open
    /\ n \in parts \ counted
    /\ counted' = counted \cup {n}
    /\ count' = count + 1
    /\ bytes' = bytes + SizeOf[n]
    /\ UNCHANGED <<file, open, expected, parts>>

Store ==
    /\ open
    /\ file = "uploading"
    /\ Cardinality(parts) >= expected
    /\ file' = "stored"
    /\ UNCHANGED session

Fail ==
    /\ file # "gone"
    /\ file' = "failed"
    /\ UNCHANGED session

Remove ==
    /\ file # "gone"
    /\ file' = "gone"
    /\ open' = FALSE
    /\ Empty'

Next == Open \/ (\E n \in PartNumbers : Receive(n) \/ Count(n)) \/ Store \/ Fail \/ Remove

Spec == Init /\ [][Next]_vars
=============================================================================
