------------------------------ MODULE AudioFeed ------------------------------
(***************************************************************************)
(* What the capture manager promises its clients, with the double buffer,  *)
(* the semaphore and the processor thread left out: one ordered backlog of *)
(* captured buffers, each broadcast in turn to the clients that are        *)
(* members when its broadcast begins.  A buffer may be lost only before    *)
(* its broadcast begins, and only to overflow or to closing the feed.      *)
(* Buffers are numbered in the order the device delivers them.             *)
(***************************************************************************)
EXTENDS Naturals, Sequences

CONSTANTS Clients,      \* the objects that may subscribe
          MaxBuffers    \* bound on the number of buffers captured

VARIABLES made,      \* number of buffers captured so far
          backlog,   \* captured buffers whose broadcast is not over, oldest first
          busy,      \* a broadcast of Head(backlog) is under way
          owed,      \* members that have yet to hear Head(backlog)
          members,   \* subscribed clients
          heard      \* heard[c]: the last buffer c heard, 0 when none

feedVars == <<made, backlog, busy, owed, members, heard>>

FeedInit == /\ made = 0
            /\ backlog = << >>
            /\ busy = FALSE
            /\ owed = {}
            /\ members = {}
            /\ heard = [c \in Clients |-> 0]

\* A new buffer joins the backlog; on overflow the buffers behind the first
\* `kept` ones are lost.  The buffer being broadcast is never lost.
FeedCapture ==
    /\ made < MaxBuffers
    /\ made' = made + 1
    /\ \E kept \in 0 .. Len(backlog) :
          /\ busy => kept >= 1
          /\ backlog' = Append(SubSeq(backlog, 1, kept), made + 1)
    /\ UNCHANGED <<busy, owed, members, heard>>

FeedAnnounce == /\ ~busy
                /\ backlog # << >>
                /\ busy' = TRUE
                /\ owed' = members
                /\ UNCHANGED <<made, backlog, members, heard>>

FeedHear(c) == /\ busy
               /\ c \in owed
               /\ owed' = owed \ {c}
               /\ heard' = [heard EXCEPT ![c] = Head(backlog)]
               /\ UNCHANGED <<made, backlog, busy, members>>

\* Everybody has heard the buffer: it leaves the backlog, and the next one is
\* either announced in the same breath or left for later.
FeedRetire == /\ busy
              /\ owed = {}
              /\ backlog' = Tail(backlog)
              /\ \/ busy' = FALSE /\ owed' = {}
                 \/ Len(backlog) > 1 /\ busy' = TRUE /\ owed' = members
              /\ UNCHANGED <<made, members, heard>>

\* Membership changes only between broadcasts.
FeedJoin(c)  == /\ ~busy
                /\ members' = members \cup {c}
                /\ UNCHANGED <<made, backlog, busy, owed, heard>>
FeedLeave(c) == /\ ~busy
                /\ members' = members \ {c}
                /\ UNCHANGED <<made, backlog, busy, owed, heard>>

FeedClose == /\ ~busy
             /\ backlog' = << >>
             /\ UNCHANGED <<made, busy, owed, members, heard>>

FeedNext == \/ FeedCapture
            \/ FeedAnnounce
            \/ \E c \in Clients : FeedHear(c) \/ FeedJoin(c) \/ FeedLeave(c)
            \/ FeedRetire
            \/ FeedClose

FeedSpec == FeedInit /\ [][FeedNext]_feedVars
=============================================================================
