------------------------------ MODULE LiveQuotes ------------------------------
(***************************************************************************)
(* A user's broker connection and the quotes it brings: the OAuth exchange *)
(* that makes it (brokers/upstox_oauth.py), the socket a live worker has   *)
(* open for it (market/upstox_stream.py), the rows of                      *)
(* live_market_subscriptions and user_live_quotes, and the executions that *)
(* ask for a live quote (market/live_overlay.py).  They meet in the        *)
(* database only; the user may disconnect at any moment.                   *)
(*                                                                         *)
(* One user and one socket: UpstoxStream has the leases that keep a second *)
(* one away.  A price is the moment of its last trade.  The clock of the   *)
(* broker is the clock of the hosts.                                       *)
(***************************************************************************)
EXTENDS Integers, FiniteSets

CONSTANTS
  Instruments,
  Attempts,        \* states handed out by begin
  Callbacks,       \* requests to the callback route
  Overlays,        \* executions that ask at a time, each followed by another
  Nothing, Unknown, \* no moment; a message that does not say when it was traded
  StateTtl,        \* broker_oauth_state_ttl_seconds
  SubscriptionTtl, \* live_market_subscription_ttl_seconds
  Fresh,           \* live_market_quote_fresh_seconds
  Stale,           \* _LIVE_STALE_AFTER_SECONDS
  Day,             \* from one 03:30 in India to the next
  LastTick,        \* bound: where the model stops the clock
  MaxQuoteFaults   \* bound: errors of the broker and of the database

ASSUME QuoteAssumption ==
  /\ StateTtl \in Nat \ {0} /\ SubscriptionTtl \in Nat \ {0} /\ Fresh \in Nat /\ Stale \in Nat
  /\ Day \in Nat \ {0} /\ LastTick \in Nat /\ MaxQuoteFaults \in Nat
  /\ Nothing \notin Attempts \cup Nat /\ Unknown \notin Nat /\ Nothing # Unknown

VARIABLES
  clock,
  oauth,         \* table broker_oauth_states
  callback,      \* what a callback is doing, for which attempt
  connection,    \* table broker_connections
  subscription,  \* table live_market_subscriptions: active_until
  row,           \* table user_live_quotes
  socket,        \* the socket, what it is subscribed to and has not flushed
  overlay,       \* executions, and how old the last one's quote was when received
                 \* and how long before that it was traded
  resubscribed,  \* instruments subscribed since the user disconnected
  quoteFaults

tables == <<oauth, connection, subscription, row>>
quoteVars == <<clock, oauth, callback, connection, subscription, row, socket, overlay,
               resubscribed, quoteFaults>>

NoQuote == [trade |-> Unknown, received |-> Nothing]
NoConnection == [of |-> Nothing, until |-> 0, good |-> 0]
Closed == [pc |-> "closed", good |-> 0, on |-> {}, pending |-> [i \in Instruments |-> NoQuote],
           left |-> FALSE, checked |-> FALSE]
NoCallback == [pc |-> "idle", of |-> Nothing, good |-> 0]
Asleep == [pc |-> "idle", of |-> Nothing, good |-> 0, label |-> "none", age |-> 0, lag |-> Unknown]

\* The user is disconnected, or connected by an attempt that is over.
QuotesInit ==
  /\ clock = 0
  /\ callback = [c \in Callbacks |-> NoCallback]
  /\ connection \in {NoConnection} \cup {[of |-> a, until |-> Day, good |-> Day] : a \in Attempts}
  /\ oauth = [a \in Attempts |-> [until |-> IF connection.of = a THEN 1 ELSE 0,
                                  used |-> connection.of = a]]
  /\ subscription = [i \in Instruments |-> 0]
  /\ row = [i \in Instruments |-> NoQuote]
  /\ socket = Closed
  /\ overlay = [o \in Overlays |-> Asleep]
  /\ resubscribed = {}
  /\ quoteFaults = 0

Elapsed == 0..clock
QuoteFault == quoteFaults < MaxQuoteFaults /\ quoteFaults' = quoteFaults + 1

Pass ==
  /\ clock < LastTick
  /\ clock' = clock + 1
  /\ UNCHANGED <<tables, callback, socket, overlay, resubscribed, quoteFaults>>

-----------------------------------------------------------------------------
(* The connection.                                                         *)

\* _upstox_token_expiry: the next 03:30, and so the broker's own rule.
Expiry(t) == (t \div Day + 1) * Day

\* access_token_for_user; connection_status says the same.
Connected == connection # NoConnection /\ connection.until > clock

Begin(a) ==
  /\ oauth[a].until = 0
  /\ oauth' = [oauth EXCEPT ![a].until = clock + StateTtl]
  /\ UNCHANGED <<clock, callback, connection, subscription, row, socket, overlay,
                 resubscribed, quoteFaults>>

Usable(a) == oauth[a].until > clock /\ ~oauth[a].used

\* consume_oauth_state.  A callback without a usable state changes nothing.
Consume(c, a) ==
  /\ callback[c].pc = "idle" /\ Usable(a)
  /\ oauth' = [oauth EXCEPT ![a].used = TRUE]
  /\ callback' = [callback EXCEPT ![c] = [pc |-> "exchanging", of |-> a, good |-> 0]]
  /\ UNCHANGED <<clock, connection, subscription, row, socket, overlay,
                 resubscribed, quoteFaults>>

\* _exchange_code: the broker grants a token, or the state is spent for nothing.
Exchange(c) ==
  /\ callback[c].pc = "exchanging"
  /\ \/ /\ callback' = [callback EXCEPT ![c].pc = "granted", ![c].good = Expiry(clock)]
        /\ UNCHANGED quoteFaults
     \/ QuoteFault /\ callback' = [callback EXCEPT ![c] = NoCallback]
  /\ UNCHANGED <<clock, tables, socket, overlay, resubscribed>>

\* upsert_connection: over whatever is there, with the expiry of the moment
\* it is stored.
ConnectedBy(c) == [of |-> callback[c].of, until |-> Expiry(clock), good |-> callback[c].good]

\* The rest of complete.
Store(c) ==
  /\ callback[c].pc = "granted"
  /\ callback' = [callback EXCEPT ![c] = NoCallback]
  /\ \/ connection' = ConnectedBy(c) /\ UNCHANGED quoteFaults
     \/ QuoteFault /\ UNCHANGED connection
  /\ UNCHANGED <<clock, oauth, subscription, row, socket, overlay, resubscribed>>

\* One transaction; the socket of the worker learns nothing of it.
Disconnect ==
  /\ connection # NoConnection
  /\ connection' = NoConnection
  /\ subscription' = [i \in Instruments |-> 0]
  /\ row' = [i \in Instruments |-> NoQuote]
  /\ socket' = IF socket.pc = "closed" THEN socket
               ELSE [socket EXCEPT !.left = TRUE, !.checked = FALSE]
  /\ resubscribed' = {}
  /\ UNCHANGED <<clock, oauth, callback, overlay, quoteFaults>>

-----------------------------------------------------------------------------
(* The socket.                                                             *)

\* active_live_instruments, which does not ask for a connection.
Active == {i \in Instruments : subscription[i] > clock}

SocketOnly == UNCHANGED <<clock, oauth, callback, connection, subscription, overlay, resubscribed>>

\* run_forever and _run_user: the candidate's token and instruments are read.
Prepare ==
  /\ socket.pc = "closed" /\ Connected /\ Active # {}
  /\ socket' = [Closed EXCEPT !.pc = "setup", !.good = connection.good, !.on = Active]
  /\ SocketOnly /\ UNCHANGED <<row, quoteFaults>>

\* _authorize_stream_uri, connect, _send_subscription_set.
Open ==
  /\ socket.pc = "setup"
  /\ socket' = IF socket.good > clock THEN [socket EXCEPT !.pc = "open"] ELSE Closed
  /\ SocketOnly /\ UNCHANGED <<row, quoteFaults>>

\* Any error; what is pending is lost.
Break ==
  /\ socket.pc # "closed" /\ QuoteFault
  /\ socket' = Closed
  /\ SocketOnly /\ UNCHANGED row

\* _accumulate_quotes: the last message on an instrument replaces the others.
Message(i) ==
  /\ socket.pc = "open" /\ i \in socket.on
  /\ \E t \in Elapsed \cup {Unknown} :
       socket' = [socket EXCEPT !.pending[i] = [trade |-> t, received |-> clock]]
  /\ SocketOnly /\ UNCHANGED <<row, quoteFaults>>

Flushed ==
  [i \in Instruments |-> IF socket.pending[i] # NoQuote THEN socket.pending[i] ELSE row[i]]

\* upsert_live_quotes: whatever the row was, and whoever is connected.
Flush ==
  /\ socket.pc = "open" /\ socket.pending # Closed.pending
  /\ row' = Flushed
  /\ socket' = [socket EXCEPT !.pending = Closed.pending]
  /\ SocketOnly /\ UNCHANGED quoteFaults

\* Mutation: without subscriptions the stream goes on as it was.
ReconcileNone ==
  /\ socket.pc = "open"
  /\ socket' = [socket EXCEPT !.on = IF Active = {} THEN @ ELSE Active, !.checked = TRUE]
  /\ SocketOnly /\ UNCHANGED <<row, quoteFaults>>

\* The refresh of the subscriptions: none ends the stream after a last flush,
\* others are reconciled.
Reconcile ==
  /\ socket.pc = "open"
  /\ IF Active = {} THEN row' = Flushed /\ socket' = Closed
     ELSE socket' = [socket EXCEPT !.on = Active, !.checked = TRUE] /\ UNCHANGED row
  /\ SocketOnly /\ UNCHANGED quoteFaults

-----------------------------------------------------------------------------
(* LiveMarketOverlayService.apply.                                         *)

OverlayOnly == UNCHANGED <<clock, oauth, callback, connection, row, socket>>
Becomes(o, step) == overlay' = [overlay EXCEPT ![o].pc = step]

\* The stored quote stays, with a warning.
StaysStored(o) == overlay' = [overlay EXCEPT ![o] = [Asleep EXCEPT !.label = "stored"]]

\* The freshness of the evidence, by the exchange's time if it is known.
LabelOf(quote) ==
  LET exchange == IF quote.trade = Unknown THEN quote.received ELSE quote.trade
  IN IF clock - exchange > Stale THEN "near_live" ELSE "live"

Gives(o, quote) ==
  overlay' = [overlay EXCEPT ![o] =
    [Asleep EXCEPT !.label = LabelOf(quote), !.age = clock - quote.received,
                   !.lag = IF quote.trade = Unknown THEN Unknown ELSE quote.received - quote.trade]]

ReadToken(o, i) ==
  /\ overlay[o].pc = "idle"
  /\ \/ /\ Connected /\ UNCHANGED quoteFaults
        /\ overlay' = [overlay EXCEPT ![o] =
             [Asleep EXCEPT !.pc = "subscribe", !.of = i, !.good = connection.good]]
     \/ ~Connected /\ StaysStored(o) /\ UNCHANGED quoteFaults
     \/ QuoteFault /\ StaysStored(o)
  /\ OverlayOnly /\ UNCHANGED <<subscription, resubscribed>>

\* provider_instrument stands outside the try, ensure_live_subscription in it.
Subscribe(o) ==
  LET until == clock + SubscriptionTtl
      i == overlay[o].of
  IN /\ overlay[o].pc = "subscribe"
     /\ \/ /\ subscription' = [subscription EXCEPT ![i] = IF @ > until THEN @ ELSE until]
           /\ resubscribed' = resubscribed \cup {i}
           /\ overlay' = [overlay EXCEPT ![o].pc = "read"]
           /\ UNCHANGED quoteFaults
        \/ QuoteFault /\ Becomes(o, "rest") /\ UNCHANGED <<subscription, resubscribed>>
        \/ /\ QuoteFault /\ UNCHANGED <<subscription, resubscribed>>
           /\ overlay' = [overlay EXCEPT ![o] = [Asleep EXCEPT !.label = "aborted"]]
     /\ OverlayOnly

\* fresh_live_quote
FreshRow(i) == row[i] # NoQuote /\ row[i].received >= clock - Fresh

ReadRow(o) ==
  /\ overlay[o].pc = "read"
  /\ \/ FreshRow(overlay[o].of) /\ Gives(o, row[overlay[o].of]) /\ UNCHANGED quoteFaults
     \/ ~FreshRow(overlay[o].of) /\ Becomes(o, "rest") /\ UNCHANGED quoteFaults
     \/ QuoteFault /\ Becomes(o, "rest")
  /\ OverlayOnly /\ UNCHANGED <<subscription, resubscribed>>

\* _get_json, with the token read at the start, which the broker may have ended.
Accepted(o) == overlay[o].good > clock

\* UpstoxMarketDataAdapter.quote
AskBroker(o) ==
  /\ overlay[o].pc = "rest"
  /\ \/ /\ Accepted(o) /\ UNCHANGED quoteFaults
        /\ \E t \in Elapsed : Gives(o, [trade |-> t, received |-> clock])
     \/ ~Accepted(o) /\ StaysStored(o) /\ UNCHANGED quoteFaults
     \/ QuoteFault /\ StaysStored(o)
  /\ OverlayOnly /\ UNCHANGED <<subscription, resubscribed>>

-----------------------------------------------------------------------------
QuotesNext ==
  \/ Pass \/ Disconnect \/ Prepare \/ Open \/ Break \/ Flush \/ Reconcile
  \/ \E a \in Attempts : Begin(a)
  \/ \E c \in Callbacks : Exchange(c) \/ Store(c) \/ \E a \in Attempts : Consume(c, a)
  \/ \E i \in Instruments : Message(i)
  \/ \E o \in Overlays :
       Subscribe(o) \/ ReadRow(o) \/ AskBroker(o) \/ \E i \in Instruments : ReadToken(o, i)

QuotesSpec == QuotesInit /\ [][QuotesNext]_quoteVars

-----------------------------------------------------------------------------
Moments == 0..LastTick
Quotes == [trade : Moments \cup {Unknown}, received : Moments \cup {Nothing}]

States == [until : Int, used : BOOLEAN]
Requests == [pc : {"idle", "exchanging", "granted"}, of : Attempts \cup {Nothing}, good : Int]
Connections == [of : Attempts \cup {Nothing}, until : Int, good : Int]
Sockets == [pc : {"closed", "setup", "open"}, good : Int, on : SUBSET Instruments,
            pending : [Instruments -> Quotes], left : BOOLEAN, checked : BOOLEAN]
Executions == [pc : {"idle", "subscribe", "read", "rest"}, of : Instruments \cup {Nothing}, good : Int,
               label : {"none", "stored", "aborted", "live", "near_live"},
               age : Moments, lag : Moments \cup {Unknown}]

QuotesTypeOK ==
  /\ clock \in Moments /\ quoteFaults \in 0..MaxQuoteFaults
  /\ oauth \in [Attempts -> States]
  /\ callback \in [Callbacks -> Requests]
  /\ connection \in Connections
  /\ subscription \in [Instruments -> Nat]
  /\ row \in [Instruments -> Quotes]
  /\ socket \in Sockets
  /\ overlay \in [Overlays -> Executions]
  /\ resubscribed \subseteq Instruments

InFlight == {c \in Callbacks : callback[c].pc # "idle"}

\* A state makes one connection at most, however many callbacks bring it and
\* whatever the broker and the database answer.
StateConnectsOnce ==
  \A c \in InFlight :
    /\ oauth[callback[c].of].used /\ connection.of # callback[c].of
    /\ \A d \in InFlight \ {c} : callback[d].of # callback[c].of

\* A socket that was open when its user disconnected streams, once it has
\* looked at the subscriptions, what an execution subscribed to since then
\* and nothing else.
LeftIsNotStreamed ==
  socket.left /\ socket.checked => socket.on \subseteq resubscribed

\* What an execution calls live was received from the broker within the fresh
\* window, whatever time it lay in a buffer, and traded within the stale one
\* if the broker said when.
LiveIsRecent ==
  \A o \in Overlays : overlay[o].label = "live" =>
    /\ overlay[o].age <= Fresh
    /\ overlay[o].lag # Unknown => overlay[o].lag + overlay[o].age <= Stale

QuotesAreTrue == QuotesTypeOK /\ StateConnectsOnce /\ LeftIsNotStreamed /\ LiveIsRecent
=============================================================================
