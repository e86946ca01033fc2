------------------------------ MODULE DepthFeed ------------------------------
(***************************************************************************)
(* One order book kept from a venue's depth stream: the loop of            *)
(* connect_depth_stream in each adapter.  The venues differ in how a       *)
(* connection gets its first full book and in what they check after:       *)
(*                                                                         *)
(*   "diff"  Binance: the book is fetched over REST while frames queue up; *)
(*           every frame must follow the one before it                     *)
(*   "push"  Bybit, OKX: the first frame of a subscription is the book     *)
(*   "ack"   MEXC: the book is fetched when the subscription is confirmed, *)
(*           frames older than it are dropped                              *)
(*   "full"  Hyperliquid, Tachibana: every frame is the book               *)
(*                                                                         *)
(* The venue numbers its updates; update i sets one level, and a book maps *)
(* a level to the number of the update that set it last.  Prices,          *)
(* quantities and their rounding are left out.                             *)
(***************************************************************************)
EXTENDS Integers, Sequences, FiniteSets, FiniteSetsExt

CONSTANTS
  Venues,       \* which of the four kinds
  MaxUpdates,   \* bound: updates of the venue
  LevelOf,      \* the level each update sets
  MaxQueue      \* bound: frames not read yet

Kinds   == {"diff", "push", "ack", "full"}
Updates == 1 .. MaxUpdates

ASSUME DepthFeedAssumption ==
  /\ Venues \subseteq Kinds
  /\ MaxUpdates \in Nat \ {0} /\ MaxQueue \in Nat \ {0}
  /\ DOMAIN LevelOf = Updates

VARIABLES
  venue,   \* its kind
  head,    \* the venue's last update
  sent,    \* the last update in a frame of this connection
  queue,   \* frames of this connection, not read yet
  link,    \* the adapter's state
  cache,   \* LocalDepthCache: last_update_id, and the book
  prev,    \* prev_id (Binance)
  floor,   \* snapshot_time (MEXC)
  shown,   \* the book of the last DepthReceived, with the update it is as of
  trust    \* history: from which update on the book must be the venue's

depthVars == <<venue, head, sent, queue, link, cache, prev, floor, shown, trust>>

Levels == {LevelOf[i] : i \in Updates}
Books  == [Levels -> 0 .. MaxUpdates]
Never  == MaxUpdates + 1

FrameTypes == {"diff", "book", "ack"}
Frames     == [type : FrameTypes, first : Updates, final : Updates]

TypeOKDepth ==
  /\ venue \in Venues /\ head \in Updates /\ sent \in 0 .. MaxUpdates
  /\ queue \in Seq(Frames) /\ Len(queue) <= MaxQueue
  /\ link \in {"Disconnected", "Fetching", "Connected"}
  /\ cache.id \in 0 .. MaxUpdates /\ cache.book \in Books
  /\ prev \in 0 .. MaxUpdates /\ floor \in Nat
  /\ shown.book \in Books /\ shown.at \in 0 .. MaxUpdates
  /\ trust \in 1 .. Never

-----------------------------------------------------------------------------
(* The venue.                                                              *)

(* The last of the first n updates that set level l: 0 when none did.      *)
LastSet(l, n) == Max({0} \cup {i \in 1 .. n : LevelOf[i] = l})
VenueBook(n) == [l \in Levels |-> LastSet(l, n)]

(* Two updates share a millisecond.                                        *)
TimeOf(i) == i \div 2

VenueUpdate ==
  /\ head < MaxUpdates /\ head' = head + 1
  /\ UNCHANGED <<venue, sent, queue, link, cache, prev, floor, shown, trust>>

FrameType == IF venue = "full" THEN "book" ELSE "diff"

VenueSends ==
  /\ link # "Disconnected" /\ sent < head /\ Len(queue) < MaxQueue
  /\ queue' = Append(queue, [type |-> FrameType, first |-> sent + 1, final |-> head])
  /\ sent' = head
  /\ UNCHANGED <<venue, head, link, cache, prev, floor, shown, trust>>

-----------------------------------------------------------------------------
(* The local book.                                                         *)

Touched(f) == {LevelOf[i] : i \in f.first .. f.final}

(* LocalDepthCache::update_with_qty_norm                                   *)
Snapshot(n) == [id |-> n, book |-> VenueBook(n)]
Diff(c, f)  == [id |-> f.final,
                book |-> [l \in Levels |-> IF l \in Touched(f) THEN VenueBook(f.final)[l]
                                                              ELSE c.book[l]]]

Publish(c) == shown' = [at |-> c.id, book |-> c.book, sure |-> c.id >= trust']

-----------------------------------------------------------------------------
(* Connecting.  Venues that push start with a frame of their own.          *)

Greeting ==
  CASE venue \in {"push", "full"} -> <<[type |-> "book", first |-> 1, final |-> head]>>
    [] venue = "ack"              -> <<[type |-> "ack", first |-> 1, final |-> head]>>
    [] OTHER                      -> <<>>

Connect ==
  /\ link = "Disconnected"
  /\ link' = IF venue = "diff" THEN "Fetching" ELSE "Connected"
  /\ queue' = Greeting /\ sent' = head
  /\ trust' = Never
  /\ UNCHANGED <<venue, head, cache, prev, floor, shown>>

(* fetch_depth: the answer may be as of any update, REST is not the        *)
(* stream.  On an error the socket is dropped with what it has received.   *)
FirstSnapshot ==
  /\ link = "Fetching"
  /\ \E n \in 1 .. head : cache' = Snapshot(n) /\ trust' = n
  /\ prev' = 0 /\ link' = "Connected"
  /\ UNCHANGED <<venue, head, sent, queue, floor, shown>>

NoSnapshot ==
  /\ link = "Fetching"
  /\ link' = "Disconnected" /\ queue' = <<>>
  /\ UNCHANGED <<venue, head, sent, cache, prev, floor, shown, trust>>

(* Close frame, read error, or a ping that cannot be sent.                 *)
SocketDies ==
  /\ link = "Connected"
  /\ link' = "Disconnected" /\ queue' = <<>>
  /\ UNCHANGED <<venue, head, sent, cache, prev, floor, shown, trust>>

-----------------------------------------------------------------------------
(* Reading a frame.                                                        *)

Read(f)   == link = "Connected" /\ queue # <<>> /\ f = Head(queue)
Consumed  == queue' = Tail(queue)

(* Binance.  A frame that is not newer than the book is dropped; the first *)
(* one after a snapshot must join it, or the snapshot is fetched again;    *)
(* each later one must follow the one before, or the socket is dropped.    *)
TooOld(f)    == f.final <= cache.id
OutOfReach(f) == prev = 0 /\ f.first > cache.id + 1
AnyFrame(f)  == TRUE                                           \* mutant of Follows
Follows(f)   == prev = 0 \/ prev = f.first - 1

DropOld(f) ==
  /\ venue = "diff" /\ Read(f) /\ TooOld(f)
  /\ Consumed
  /\ UNCHANGED <<venue, head, sent, link, cache, prev, floor, shown, trust>>

Apply(f) ==
  /\ venue = "diff" /\ Read(f) /\ ~TooOld(f) /\ ~OutOfReach(f) /\ Follows(f)
  /\ cache' = Diff(cache, f) /\ prev' = f.final
  /\ UNCHANGED trust /\ Publish(cache')
  /\ Consumed
  /\ UNCHANGED <<venue, head, sent, link, floor>>

LostTrack(f) ==
  /\ venue = "diff" /\ Read(f) /\ ~TooOld(f) /\ ~OutOfReach(f) /\ ~Follows(f)
  /\ link' = "Disconnected" /\ queue' = <<>>
  /\ UNCHANGED <<venue, head, sent, cache, prev, floor, shown, trust>>

(* try_resync.  The frame that caused it is applied to whatever book there *)
(* is then: to a snapshot that may be newer or still too old, or to the    *)
(* old book when the fetch failed, which also ends the connection when its *)
(* task was lost.                                                          *)
Resync(f) ==
  /\ venue = "diff" /\ Read(f) /\ ~TooOld(f) /\ OutOfReach(f)
  /\ \/ \E n \in 1 .. head :
          /\ cache' = Diff(Snapshot(n), f)
          /\ trust' = IF f.first <= n + 1 THEN n ELSE Never
          /\ UNCHANGED link
          /\ Consumed
     \/ /\ cache' = Diff(cache, f) /\ trust' = Never
        /\ UNCHANGED link
        /\ Consumed
     \/ /\ cache' = Diff(cache, f) /\ trust' = Never
        /\ link' = "Disconnected" /\ queue' = <<>>
  /\ prev' = f.final
  /\ Publish(cache')
  /\ UNCHANGED <<venue, head, sent, floor>>

(* A frame that is the whole book: Bybit and OKX keep it for the next      *)
(* frame, Hyperliquid and Tachibana show it.                               *)
WholeBook(f) ==
  /\ Read(f) /\ f.type = "book"
  /\ cache' = Snapshot(f.final) /\ trust' = f.final
  /\ IF venue = "full" THEN Publish(cache') ELSE UNCHANGED shown
  /\ Consumed
  /\ UNCHANGED <<venue, head, sent, link, prev, floor>>

(* MEXC, confirmed: the snapshot, or none at all.  One older than the      *)
(* subscription does not meet its first frame.                             *)
Confirmed(f) ==
  /\ Read(f) /\ f.type = "ack"
  /\ \/ \E n \in 1 .. head :
          /\ cache' = Snapshot(n) /\ floor' = TimeOf(n)
          /\ trust' = IF n >= f.final THEN n ELSE Never
     \/ UNCHANGED <<cache, floor, trust>>
  /\ Consumed
  /\ UNCHANGED <<venue, head, sent, link, prev, shown>>

Outdated(f) == venue = "ack" /\ TimeOf(f.final) < floor

ApplyUnchecked(f) ==
  /\ venue \in {"push", "ack"} /\ Read(f) /\ f.type = "diff"
  /\ Consumed
  /\ IF Outdated(f) THEN UNCHANGED <<cache, shown, trust>>
     ELSE cache' = Diff(cache, f) /\ UNCHANGED trust /\ Publish(cache')
  /\ UNCHANGED <<venue, head, sent, link, prev, floor>>

(* A frame that does not parse is dropped.  Binance must notice by itself. *)
Unreadable(f) ==
  /\ Read(f) /\ Consumed
  /\ trust' = IF venue = "diff" THEN trust ELSE Never
  /\ UNCHANGED <<venue, head, sent, link, cache, prev, floor, shown>>

DepthInit ==
  /\ venue \in Venues /\ head = 1 /\ sent = 0
  /\ queue = <<>> /\ link = "Disconnected"
  /\ cache = [id |-> 0, book |-> [l \in Levels |-> 0]]
  /\ prev = 0 /\ floor = 0
  /\ shown = [at |-> 0, book |-> [l \in Levels |-> 0], sure |-> FALSE]
  /\ trust = Never

FrameRead(f) ==
  \/ DropOld(f) \/ Apply(f) \/ LostTrack(f) \/ Resync(f)
  \/ WholeBook(f) \/ Confirmed(f) \/ ApplyUnchecked(f)
  \/ Unreadable(f)

DepthNext ==
  \/ VenueUpdate \/ VenueSends
  \/ Connect \/ FirstSnapshot \/ NoSnapshot \/ SocketDies
  \/ \E f \in {queue[i] : i \in DOMAIN queue} : FrameRead(f)

DepthSpec == DepthInit /\ [][DepthNext]_depthVars

-----------------------------------------------------------------------------
(* The book on the screen is the venue's book as of the update it is dated *)
(* with, over reconnects, late snapshots, frames that overlap or precede   *)
(* them and, on Binance, lost frames.  It need not be before the book has  *)
(* caught up with its snapshot, nor when the adapter could not know: a     *)
(* frame lost where nothing is numbered, a snapshot too old to meet the    *)
(* first frame after a resync or a subscription, a failed resync.          *)
BooksAreTheVenues == shown.sure => shown.book = VenueBook(shown.at)
=============================================================================
