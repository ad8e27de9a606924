----------------------------- MODULE VncPicture -----------------------------
(***************************************************************************)
(* The picture of a VNC tab, from the server's desktop to the particle     *)
(* desktop: the update requests, the decoded framebuffer, the damage the   *)
(* worker publishes and the renderer takes, the resizes either side asks   *)
(* for, and a connection that drops and comes back                         *)
(* (src/src/vnc/RfbClient.cpp, VncSession.cpp, src/src/app_vnc.cpp).       *)
(*                                                                         *)
(* A desktop of size n is the tiles 1 .. n; a tile's picture is a number,  *)
(* 0 the black of a fresh buffer.  How a rectangle is encoded is left out. *)
(***************************************************************************)
EXTENDS Naturals, FiniteSets, SequencesExt

CONSTANTS MaxSize,     \* sizes are 1 .. MaxSize
          MaxChanges,  \* bound: what the desktop's programs draw
          MaxTroubles, \* bound: resizes of the far side, sizes the window takes
                       \* and connections lost, together
          Troubles     \* which of them happen

ASSUME VncPictureAssumption ==
  /\ MaxSize \in Nat \ {0}
  /\ {MaxChanges, MaxTroubles} \subseteq Nat
  /\ Troubles \subseteq {"resize", "window", "drop"}

VARIABLES
  server,   \* the desktop and what the server owes this client
  down, up, \* the stream to the client; m_outbound and the stream to the server
  client,   \* the RfbClient
  cmds,     \* m_cmds
  pending,  \* m_pending, the damage not yet taken
  desk,     \* the tab's fbW and fbH and the particle desktop's buffer
  window,   \* the content area, and why its size is still to be asked for
  live,     \* the connection is up
  used      \* how much of each bound is spent

pictureVars == <<server, down, up, client, cmds, pending, desk, window, live, used>>

Sizes  == 1 .. MaxSize
Trouble(kind) ==
  /\ kind \in Troubles /\ used.troubles < MaxTroubles
  /\ used' = [used EXCEPT !.troubles = @ + 1]
Black(n) == [t \in 1 .. n |-> 0]
Paint(px, r) == [t \in DOMAIN px |-> IF t \in r.at THEN r.px[t] ELSE px[t]]
\* Rectangles are painted in arrival order: a tile shows the last that has it.
Covers(rects, t, i) == i \in 1 .. Len(rects) /\ t \in rects[i].at
LastOver(rects, t) == CHOOSE i \in 1 .. Len(rects) : Covers(rects, t, i) /\ \A j \in i + 1 .. Len(rects) : ~Covers(rects, t, j)
Painted(px, rects) ==
  [t \in DOMAIN px |-> IF \E i \in 1 .. Len(rects) : Covers(rects, t, i) THEN rects[LastOver(rects, t)].px[t] ELSE px[t]]
Rect(at, px) == [at |-> at, px |-> [t \in at |-> px[t]]]
NoDamage(n) == [n |-> n, full |-> FALSE, rects |-> <<>>]
\* Damage.pixels: every rectangle's own copy, side by side.
Pixels(rects) ==
  LET sum[i \in 0 .. Len(rects)] == IF i = 0 THEN 0 ELSE sum[i - 1] + Cardinality(rects[i].at)
  IN  sum[Len(rects)]

NoRequest == [kind |-> "none", n |-> 0]
\* StepServerInit: a black buffer, and the first full request.
FreshClient(n, wanted) ==
  [n |-> n, fb |-> Black(n), outstanding |-> 1, cont |-> FALSE, ext |-> FALSE,
   wanted |-> wanted, dirty |-> <<>>, resized |-> FALSE, send |-> <<>>]
FirstRequest(n) == <<[t |-> "request", inc |-> FALSE, n |-> n]>>
\* The server's side of a fresh connection: it states its layout, and that it
\* can update continuously, when it can.
Fresh(s) == [s EXCEPT !.mod = 1 .. s.n, !.request = NoRequest, !.region = 0,
                      !.layouts = IF s.ext THEN <<[n |-> s.n, ours |-> FALSE, ok |-> TRUE]>> ELSE <<>>,
                      !.says = s.can]

PictureInit ==
  /\ \E can, ext \in BOOLEAN : \E takes \in {FALSE, ext} :
       server = Fresh([n |-> 1, pic |-> Black(1), mod |-> {}, request |-> NoRequest, region |-> 0,
                       layouts |-> <<>>, can |-> can, ext |-> ext, takes |-> takes, says |-> FALSE])
  /\ down = <<>> /\ up = FirstRequest(1) /\ client = FreshClient(1, 0)
  /\ cmds = <<>> /\ pending = NoDamage(1)
  /\ desk = [n |-> 0, px |-> <<>>]
  /\ window = [n |-> 1, due |-> "no"] /\ live = TRUE
  /\ used = [changes |-> 0, troubles |-> 0]

----------------------------------------------------------------------------
(* RfbClient.  k is the client while it works; k.send is its m_out.        *)

Send(k, m) == [k EXCEPT !.send = Append(@, m)]
RequestUpdate(k, inc, force) ==
  IF ~force /\ (k.outstanding >= 1 \/ (k.cont /\ inc)) THEN k
  ELSE [Send(k, [t |-> "request", inc |-> inc, n |-> k.n])
          EXCEPT !.outstanding = IF @ < 2 THEN @ + 1 ELSE @]
Enable(k) == Send(k, [t |-> "continuous", n |-> k.n])

\* FramebufferUpdate's header: the next request goes out before this update
\* is decoded.
Header(k) == IF k.cont THEN k ELSE RequestUpdate([k EXCEPT !.outstanding = 0], TRUE, FALSE)

ApplyNoRegion(k) == RequestUpdate([k EXCEPT !.resized = TRUE], FALSE, TRUE)    \* (faulty)
ApplyDesktopSize(k) ==
  LET asked == RequestUpdate([k EXCEPT !.resized = TRUE], FALSE, TRUE)
  IN  IF asked.cont THEN Enable(asked) ELSE asked
Resized(k, n) ==
  ApplyDesktopSize([k EXCEPT !.n = n, !.fb = Black(n), !.dirty = <<1 .. n>>])

SendDesktopSize(k, n) == IF n = k.n THEN k ELSE Send(k, [t |-> "size", n |-> n])
\* ExtendedDesktopSize: then the size asked for before the layout was known.
Layout(k, i) ==
  LET sized == IF (i.ours /\ ~i.ok) \/ i.n = k.n THEN k ELSE Resized(k, i.n)
  IN  IF k.wanted = 0 THEN [sized EXCEPT !.ext = TRUE]
      ELSE SendDesktopSize([sized EXCEPT !.ext = TRUE, !.wanted = 0], k.wanted)
\* EndOfContinuousUpdates, unprompted: the server can.
EndOfContinuousUpdates(k) ==
  IF k.cont THEN k ELSE [Enable(k) EXCEPT !.cont = TRUE, !.outstanding = 0]
Decoded(k, i) == [k EXCEPT !.fb = Paint(@, i), !.dirty = Append(@, i.at)]

StepReady(k, i) ==
  CASE i.t = "header" -> Header(k)
    [] i.t = "rect"   -> Decoded(k, i)
    [] i.t = "layout" -> Layout(k, i)
    [] i.t = "can"    -> EndOfContinuousUpdates(k)

RequestDesktopSize(k, n) ==
  IF ~k.ext THEN [k EXCEPT !.wanted = n] ELSE SendDesktopSize(k, n)
Execute(k, cmd) ==
  IF cmd.kind = "refresh" THEN RequestUpdate(k, FALSE, TRUE) ELSE RequestDesktopSize(k, cmd.n)
\* The client after the first n messages, and then after its commands.
Fed(k, msgs, n) ==
  LET fed[i \in 0 .. n] == IF i = 0 THEN k ELSE StepReady(fed[i - 1], msgs[i])
  IN  fed[n]
Told(k, orders) ==
  LET told[i \in 0 .. Len(orders)] == IF i = 0 THEN k ELSE Execute(told[i - 1], orders[i])
  IN  told[Len(orders)]

----------------------------------------------------------------------------
(* The worker.                                                             *)

\* Publish: a resize empties the pending damage; a rectangle that would take it
\* past the framebuffer's area makes it one copy of the whole.
Copies(k) == [i \in 1 .. Len(k.dirty) |-> Rect(k.dirty[i], k.fb)]
OnlyNew(k) == [n |-> k.n, full |-> FALSE, rects |-> Copies(k)]              \* (faulty)
Whole(k) == [n |-> k.n, full |-> TRUE, rects |-> <<Rect(1 .. k.n, k.fb)>>]
Published(k) ==
  LET base == IF k.resized THEN NoDamage(k.n) ELSE pending
      more == [base EXCEPT !.rects = @ \o Copies(k)]
      all  == IF k.dirty # <<>> /\ Pixels(more.rects) > k.n THEN Whole(k) ELSE more
  IN  [all EXCEPT !.n = k.n, !.full = @ \/ k.dirty = <<1 .. k.n>>]

Pump == \* what can be read, then the commands, then Publish
  /\ live
  /\ down # <<>> \/ cmds # <<>>
  /\ \E n \in 0 .. Len(down) :
       /\ n > 0 \/ down = <<>> \/ cmds # <<>>
       /\ LET done == Told(Fed(client, down, n), cmds) IN
            /\ down' = SubSeq(down, n + 1, Len(down))
            /\ up' = up \o done.send
            /\ pending' = Published(done)
            /\ client' = [done EXCEPT !.send = <<>>, !.dirty = <<>>, !.resized = FALSE]
  /\ cmds' = <<>>
  /\ UNCHANGED <<server, desk, window, live, used>>

Drops ==
  /\ live /\ Trouble("drop")
  /\ live' = FALSE /\ down' = <<>> /\ up' = <<>>
  /\ UNCHANGED <<server, client, cmds, pending, desk, window>>

\* Worker and Connect: a new client; the commands that meet it before it is
\* Ready are lost, but for the newest size; damage of the old one is dropped.
Dropped(p, n) == NoDamage(n)
IsSize(i) == i \in 1 .. Len(cmds) /\ cmds[i].kind = "size"
LastSize ==
  IF ~\E i \in 1 .. Len(cmds) : IsSize(i) THEN 0
  ELSE cmds[CHOOSE i \in 1 .. Len(cmds) : IsSize(i) /\ \A j \in i + 1 .. Len(cmds) : ~IsSize(j)].n
Connect ==
  /\ ~live /\ live' = TRUE
  /\ server' = Fresh(server)
  /\ up' = FirstRequest(server.n) /\ down' = <<>>
  /\ client' = FreshClient(server.n, LastSize)
  /\ cmds' = <<>> /\ pending' = Dropped(pending, server.n)
  /\ window' = [window EXCEPT !.due = "connected"]
  /\ UNCHANGED <<desk, used>>

----------------------------------------------------------------------------
(* The UI thread.                                                          *)

\* RenderVncPasses: take the damage; a buffer of another size starts black, and
\* wants the whole picture when what was taken is a part.
Configured == IF pending.n = desk.n THEN desk ELSE [n |-> pending.n, px |-> Black(pending.n)]
Partial == pending.n # desk.n /\ ~pending.full
Refresh == [kind |-> "refresh", n |-> 0]
RenderVncPasses ==
  /\ pending.rects # <<>>
  /\ desk' = [Configured EXCEPT !.px = Painted(@, pending.rects)]
  /\ pending' = NoDamage(pending.n)
  /\ cmds' = IF Partial THEN Append(cmds, Refresh) ELSE cmds
  /\ UNCHANGED <<server, down, up, client, window, live, used>>

\* "Fit the window": its size is asked for with the Connected event, and when
\* the content area changes, after a pause, if the picture then has another.
WindowChanges ==
  /\ Trouble("window")
  /\ \E n \in Sizes \ {window.n} : window' = [n |-> n, due |-> IF window.due = "connected" THEN window.due ELSE "pause"]
  /\ UNCHANGED <<server, down, up, client, cmds, pending, desk, live>>
\* Without the sizes only refreshes stay, and they are all alike.
Sizeless == [i \in 1 .. Cardinality({j \in 1 .. Len(cmds) : ~IsSize(j)}) |-> Refresh]
FitWindow ==
  /\ live /\ window.due # "no"
  /\ window' = [window EXCEPT !.due = "no"]
  /\ cmds' = IF window.due = "pause" /\ window.n = desk.n THEN cmds
             ELSE Append(Sizeless, [kind |-> "size", n |-> window.n])
  /\ UNCHANGED <<server, down, up, client, pending, desk, live, used>>

----------------------------------------------------------------------------
(* The server, as the protocol has it.                                     *)

Draw ==
  /\ used.changes < MaxChanges
  /\ \E t \in 1 .. server.n :
       server' = [server EXCEPT !.pic[t] = used.changes + 1, !.mod = @ \cup {t}]
  /\ used' = [used EXCEPT !.changes = @ + 1]
  /\ UNCHANGED <<down, up, client, cmds, pending, desk, window, live>>

SizedTo(s, n, ours) ==
  [s EXCEPT !.n = n, !.pic = [t \in 1 .. n |-> IF t \in DOMAIN @ THEN @[t] ELSE 0],
            !.mod = 1 .. n, !.layouts = Append(@, [n |-> n, ours |-> ours, ok |-> TRUE])]
ResizesItself ==
  /\ Trouble("resize")
  /\ \E n \in Sizes \ {server.n} : server' = SizedTo(server, n, FALSE)
  /\ UNCHANGED <<down, up, client, cmds, pending, desk, window, live>>

\* A request adds its region to the one that waits; a full one marks it changed.
Requested(s, m) ==
  [s EXCEPT !.request = [kind |-> "asked", n |-> IF m.n > @.n THEN m.n ELSE @.n],
            !.mod = IF m.inc THEN @ ELSE @ \cup (1 .. m.n \cap 1 .. s.n)]
Receive ==
  /\ live /\ up # <<>>
  /\ up' = Tail(up)
  /\ LET m == Head(up)
     IN  \/ m.t = "request" /\ server' = Requested(server, m)
         \/ m.t = "continuous" /\ server' = [server EXCEPT !.region = m.n]
         \/ m.t = "size" /\ server.takes /\ server' = SizedTo(server, m.n, TRUE)
         \/ /\ m.t = "size" /\ ~server.takes
            /\ server' = [server EXCEPT !.layouts = Append(@, [n |-> server.n, ours |-> TRUE, ok |-> FALSE])]
  /\ UNCHANGED <<down, client, cmds, pending, desk, window, live, used>>

\* An update: the layouts due, then the changed tiles it was asked for, in one
\* rectangle or in several.
Reach == IF server.request.n > server.region THEN server.request.n ELSE server.region
ToSend == server.mod \cap 1 .. Reach
Item(l) == [t |-> "layout", n |-> l.n, ours |-> l.ours, ok |-> l.ok]
Tiles(at) == [t |-> "rect", at |-> at, px |-> [x \in at |-> server.pic[x]]]
Update ==
  /\ live
  /\ server.request # NoRequest \/ server.region > 0
  /\ ToSend # {} \/ server.layouts # <<>>
  /\ \E rects \in {<<ToSend>>, SetToSeq({{x} : x \in ToSend})} :
       down' = down \o <<[t |-> "header"]>> \o [i \in 1 .. Len(server.layouts) |-> Item(server.layouts[i])]
               \o (IF ToSend = {} THEN <<>> ELSE [i \in 1 .. Len(rects) |-> Tiles(rects[i])])
  /\ server' = [server EXCEPT !.mod = @ \ ToSend, !.request = NoRequest, !.layouts = <<>>]
  /\ UNCHANGED <<up, client, cmds, pending, desk, window, live, used>>
SaysItCan ==
  /\ live /\ server.says
  /\ server' = [server EXCEPT !.says = FALSE]
  /\ down' = Append(down, [t |-> "can"])
  /\ UNCHANGED <<up, client, cmds, pending, desk, window, live, used>>

PictureNext == Pump \/ Drops \/ Connect \/ RenderVncPasses \/ WindowChanges \/ FitWindow
        \/ Draw \/ ResizesItself \/ Receive \/ Update \/ SaysItCan

PictureSpec == PictureInit /\ [][PictureNext]_pictureVars
FairPicture == PictureSpec /\ WF_pictureVars(Pump) /\ WF_pictureVars(Connect) /\ WF_pictureVars(RenderVncPasses) /\ WF_pictureVars(FitWindow)
                 /\ WF_pictureVars(Receive) /\ WF_pictureVars(Update) /\ WF_pictureVars(SaysItCan)

----------------------------------------------------------------------------
PictureTypeOK ==
  /\ client.n \in Sizes /\ DOMAIN client.fb = 1 .. client.n
  /\ client.outstanding \in 0 .. 2 /\ client.wanted \in 0 .. MaxSize
  /\ server.n \in Sizes /\ server.mod \subseteq 1 .. server.n
  /\ desk.n \in 0 .. MaxSize /\ desk.n > 0 => DOMAIN desk.px = 1 .. desk.n
  /\ pending.n = client.n
  /\ \A i \in 1 .. Len(pending.rects) : pending.rects[i].at \subseteq 1 .. pending.n

\* A full picture is still to come: asked for, or about to be.
FullComing ==
  \/ \E i \in 1 .. Len(cmds) : cmds[i].kind = "refresh"
  \/ \E i \in 1 .. Len(up) : up[i].t = "request" /\ ~up[i].inc
  \/ pending.rects # <<>> /\ Partial
\* The server owes tile t, or its new picture is on the way.
Coming(t) ==
  \/ FullComing \/ t \in server.mod \/ server.layouts # <<>>
  \/ \E i \in 1 .. Len(down) : down[i].t = "layout" \/ (down[i].t = "rect" /\ t \in down[i].at)

\* VncSession.h: the pending damage is bounded by one copy of the framebuffer,
\* however long the renderer stays away.
DamageBounded == Pixels(pending.rects) <= pending.n

\* Publish and TakeDamage between them lose nothing: what the renderer shows,
\* with what it has still to take, is the decoder's framebuffer, tile by tile,
\* unless that tile is still to come.
NothingMissed ==
  live => \A t \in 1 .. client.n :
    \/ Painted(Configured.px, pending.rects)[t] = client.fb[t]
    \/ Coming(t)

\* Requests, continuous updates and resizes never leave both sides waiting for
\* the other: once the desktop is quiet its picture is on the screen.
PictureArrives == <>[](desk.n = server.n /\ desk.px = server.pic)

\* The damage on its way to the renderer stays bounded, and complete.
DamageHeld == PictureTypeOK /\ DamageBounded /\ NothingMissed

(* Statements of the repository that the code does not keep. *)

\* "Fit the window": app_vnc.cpp asks "again whenever it changes", so a server
\* that takes sizes ends with the newest.
FitsTheWindow ==
  server.ext /\ server.takes /\ "resize" \notin Troubles => <>[](server.n = window.n)
============================================================================
