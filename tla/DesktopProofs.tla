--------------------------- MODULE DesktopProofs ---------------------------
(***************************************************************************)
(* Proofs about the desktop programs, for any settings, devices, threads   *)
(* and generations of sync, for calls that fail at any step and for a      *)
(* crash between any two: Restart leaves nothing running that the program  *)
(* does not hold, the settings file is whole, what runs is what is saved   *)
(* but for what a call that failed left undone, and a client that gives up *)
(* shows why.                                                              *)
(*                                                                         *)
(* The first and the last hold on Linux for any number of commands, on     *)
(* Windows for one window call at a time.  The others are for one call at  *)
(* a time (Apart), where on Linux what the daemon remembers counts as one: *)
(* no lock keeps its save apart from a command's.                          *)
(***************************************************************************)
EXTENDS Desktop, FiniteSetTheorems, TLAPS

\* What a thread has, with the program's settings m in the world l.
Fits(x, m, l) ==
  /\ x \in Call
  /\ IF l.platform = "linux" /\ x.op.op \notin {"seen", "start"} THEN x.cfg # None ELSE m # None
  /\ x.cfg # None => l.platform = "linux" /\ x.op.op # "start"
  /\ x.at \in {"stopped", "read", "loaded"} => m # None
  /\ x.at \in {"writing", "written"} => x.data # None
  /\ x.at = "left" => x.op.op \in {"join", "signin"}
  /\ x.at = "saved" => x.op.op = "pause"
  /\ x.at = "read" => l.platform = "linux"
  /\ x.op.op = "pause" => l.platform # "linux"
  /\ x.op.op = "start" => x.at \in {"restart", "stopped", "read", "loaded"}
  /\ x.op.op = "seen" => x.at \in {"begun", "changed", "writing", "written"}

Threads ==
  /\ call \in [Calls -> Call \cup {None}]
  /\ \A c \in Calls : call[c] # None => Fits(call[c], mem, load)

Files == file \in Config \cup {Part} /\ tmp \in Config \cup {Part, None} /\ mem \in Config \cup {None}

Generations ==
  /\ \A g \in DOMAIN gen : gen[g] \in Generation
  /\ \E n \in 0..MaxGen : DOMAIN gen = 1..n
  /\ stop \in DOMAIN gen \cup {0}
  /\ DOMAIN gen # {} => mem # None

Shown == relay \in BOOLEAN /\ signedOut \in BOOLEAN
Outside == revoked \subseteq Tokens /\ reachable \in BOOLEAN /\ load \in World

Base == Threads /\ Files /\ Generations /\ Shown /\ Outside

LEMMA NoneFacts ==
  /\ None \notin Config /\ Part \notin Config /\ None # Part /\ None \notin Call
  /\ None \notin Codes /\ None \notin Tokens
BY DesktopAssumption

\* One thread moves.
LEMMA Moves ==
  ASSUME Threads, NEW c \in Calls, NEW x, call' = [call EXCEPT ![c] = x],
         x = None \/ Fits(x, mem', load'),
         load'.platform = load.platform, mem # None => mem' # None
  PROVE  Threads'
<1>1. call' \in [Calls -> Call \cup {None}]
  BY DEF Threads, Fits
<1>2. ASSUME NEW o \in Calls, call'[o] # None
      PROVE  Fits(call'[o], mem', load')
  <2>1. CASE o = c
    BY <2>1, <1>2 DEF Threads
  <2>2. CASE o # c
    <3>1. call'[o] = call[o] /\ Fits(call[o], mem, load)
      BY <2>2, <1>2 DEF Threads
    <3> QED
      BY <3>1 DEF Fits
  <2> QED
    BY <2>1, <2>2
<1> QED
  BY <1>1, <1>2 DEF Threads

\* No thread moves.
LEMMA ThreadsStay ==
  ASSUME Threads, UNCHANGED call, load'.platform = load.platform, mem # None => mem' # None
  PROVE  Threads'
BY DEF Threads, Fits

LEMMA Remade ==
  ASSUME NEW x \in Call, NEW s \in Stages, NEW f \in Config \cup {None}, NEW d \in Config \cup {None},
         NEW b \in BOOLEAN
  PROVE  /\ [x EXCEPT !.at = s] = [op |-> x.op, at |-> s, cfg |-> x.cfg, data |-> x.data, moved |-> x.moved]
         /\ [op |-> x.op, at |-> s, cfg |-> f, data |-> d, moved |-> b] \in Call
         /\ [op |-> x.op, at |-> s, cfg |-> f, data |-> d, moved |-> x.moved] \in Call
         /\ [op |-> x.op, at |-> s, cfg |-> x.cfg, data |-> x.data, moved |-> x.moved] \in Call
BY DEF Call

LEMMA RemadeTwice ==
  ASSUME NEW x \in Call, NEW s, NEW f
  PROVE  [[x EXCEPT !.cfg = f] EXCEPT !.at = s]
           = [op |-> x.op, at |-> s, cfg |-> f, data |-> x.data, moved |-> x.moved]
<1> DEFINE y == [x EXCEPT !.cfg = f]
<1>1. y = [op |-> x.op, at |-> x.at, cfg |-> f, data |-> x.data, moved |-> x.moved]
  BY DEF Call
<1>2. [y EXCEPT !.at = s] = [op |-> x.op, at |-> s, cfg |-> f, data |-> x.data, moved |-> x.moved]
  <2> HIDE DEF y
  <2> QED BY <1>1
<1> QED
  BY <1>2

LEMMA RemadeThrice ==
  ASSUME NEW x \in Call, NEW s, NEW d, NEW b
  PROVE  [[[x EXCEPT !.at = s] EXCEPT !.data = d] EXCEPT !.moved = b]
           = [op |-> x.op, at |-> s, cfg |-> x.cfg, data |-> d, moved |-> b]
<1> DEFINE z == [x EXCEPT !.at = s]
           w == [z EXCEPT !.data = d]
<1>1. z = [op |-> x.op, at |-> s, cfg |-> x.cfg, data |-> x.data, moved |-> x.moved]
  BY DEF Call
<1>2. w = [op |-> x.op, at |-> s, cfg |-> x.cfg, data |-> d, moved |-> x.moved]
  <2> HIDE DEF z
  <2> QED BY <1>1
<1>3. [w EXCEPT !.moved = b] = [op |-> x.op, at |-> s, cfg |-> x.cfg, data |-> d, moved |-> b]
  <2> HIDE DEF w
  <2> QED BY <1>2
<1> QED
  BY <1>3

LEMMA RemadeRead ==
  ASSUME NEW x \in Call, NEW s, NEW d
  PROVE  [[x EXCEPT !.at = s] EXCEPT !.data = d]
           = [op |-> x.op, at |-> s, cfg |-> x.cfg, data |-> d, moved |-> x.moved]
<1> DEFINE z == [x EXCEPT !.at = s]
<1>1. z = [op |-> x.op, at |-> s, cfg |-> x.cfg, data |-> x.data, moved |-> x.moved]
  BY DEF Call
<1>2. [z EXCEPT !.data = d] = [op |-> x.op, at |-> s, cfg |-> x.cfg, data |-> d, moved |-> x.moved]
  <2> HIDE DEF z
  <2> QED BY <1>1
<1> QED
  BY <1>2

LEMMA SetRemade ==
  ASSUME Threads, NEW c \in Calls, call[c] # None, NEW s, NEW f,
         call' = [call EXCEPT ![c].cfg = f, ![c].at = s]
  PROVE  call' = [call EXCEPT ![c] = [op |-> call[c].op, at |-> s, cfg |-> f, data |-> call[c].data,
                                      moved |-> call[c].moved]]
<1>1. call[c] \in Call /\ DOMAIN call = Calls
  BY DEF Threads
<1>2. call' = [call EXCEPT ![c] = [[call[c] EXCEPT !.cfg = f] EXCEPT !.at = s]]
  BY <1>1
<1>3. [[call[c] EXCEPT !.cfg = f] EXCEPT !.at = s]
        = [op |-> call[c].op, at |-> s, cfg |-> f, data |-> call[c].data, moved |-> call[c].moved]
  BY <1>1, RemadeTwice
<1> QED
  BY <1>2, <1>3

LEMMA SaveRemade ==
  ASSUME Threads, NEW c \in Calls, call[c] # None, NEW s, NEW d, NEW b,
         call' = [call EXCEPT ![c].at = s, ![c].data = d, ![c].moved = b]
  PROVE  call' = [call EXCEPT ![c] = [op |-> call[c].op, at |-> s, cfg |-> call[c].cfg, data |-> d,
                                      moved |-> b]]
<1>1. call[c] \in Call /\ DOMAIN call = Calls
  BY DEF Threads
<1>2. call' = [call EXCEPT ![c] = [[[call[c] EXCEPT !.at = s] EXCEPT !.data = d] EXCEPT !.moved = b]]
  BY <1>1
<1>3. [[[call[c] EXCEPT !.at = s] EXCEPT !.data = d] EXCEPT !.moved = b]
        = [op |-> call[c].op, at |-> s, cfg |-> call[c].cfg, data |-> d, moved |-> b]
  BY <1>1, RemadeThrice
<1> QED
  BY <1>2, <1>3

LEMMA ReadRemade ==
  ASSUME Threads, NEW c \in Calls, call[c] # None, NEW s, NEW d,
         call' = [call EXCEPT ![c].at = s, ![c].data = d]
  PROVE  call' = [call EXCEPT ![c] = [op |-> call[c].op, at |-> s, cfg |-> call[c].cfg, data |-> d,
                                      moved |-> call[c].moved]]
<1>1. call[c] \in Call /\ DOMAIN call = Calls
  BY DEF Threads
<1>2. call' = [call EXCEPT ![c] = [[call[c] EXCEPT !.at = s] EXCEPT !.data = d]]
  BY <1>1
<1>3. [[call[c] EXCEPT !.at = s] EXCEPT !.data = d]
        = [op |-> call[c].op, at |-> s, cfg |-> call[c].cfg, data |-> d, moved |-> call[c].moved]
  BY <1>1, RemadeRead
<1> QED
  BY <1>2, <1>3

LEMMA OpFacts ==
  ASSUME NEW x \in Call
  PROVE  /\ x.op.op \in {"join", "signin", "leave", "pause", "settings", "forget", "seen", "start"}
         /\ x.op.op \in {"join", "signin"} => x.op.group \in Groups
         /\ x.op.op \in {"forget", "seen"} => x.op.peer \in Peers
         /\ x.at \in Stages /\ x.cfg \in Config \cup {None} /\ x.data \in Config \cup {None}
         /\ x.moved \in BOOLEAN
BY DEF Call, Ops, Start, Groups

LEMMA ConfigFacts ==
  ASSUME NEW f \in Config, NEW g \in Groups, NEW p \in Peers
  PROVE  /\ Left(f) \in Config /\ Remembered(f, p) \in Config /\ Forgotten(f, p) \in Config
         /\ [f EXCEPT !.group = g] \in Config /\ [f EXCEPT !.opt = ~@] \in Config
         /\ f.group \in Groups /\ f.opt \in BOOLEAN
<1>1. Left(f) \in Config /\ [f EXCEPT !.group = g] \in Config
  BY DEF Left, Config, Groups
<1>2. Remembered(f, p) \in Config /\ Forgotten(f, p) \in Config
  BY DEF Remembered, Forgotten, Config
<1>3. (~f.opt) \in BOOLEAN
  OBVIOUS
<1>4. [f EXCEPT !.opt = ~@] \in Config
  BY <1>3, Zenon DEF Config
<1>5. f.group \in Groups /\ f.opt \in BOOLEAN
  BY DEF Config
<1> QED
  BY <1>1, <1>2, <1>4, <1>5

LEMMA SpendKeeps ==
  ASSUME load \in World, NEW b \in {"crashes", "errors", "cuts", "turns"}, Spend(b)
  PROVE  load' \in World /\ load'.platform = load.platform /\ load'.atOnce = load.atOnce
         /\ load'.ops = load.ops
<1>1. load[b] \in Nat /\ load[b] > 0 /\ load' = [load EXCEPT ![b] = @ - 1]
  BY DEF World, Spend
<1>2. load[b] - 1 \in Nat
  BY <1>1
<1> QED
  BY <1>1, <1>2 DEF World

-----------------------------------------------------------------------------
(* Types: one lemma per action, without any hypothesis on the calls.       *)

\* The thread c goes to stage s with the settings f, the marshalled d, and b.
Becomes(c, s, f, d, b) ==
  call' = [call EXCEPT ![c] = [op |-> call[c].op, at |-> s, cfg |-> f, data |-> d, moved |-> b]]

LEMMA GoesBecomes ==
  ASSUME Threads, NEW c \in Calls, call[c] # None, NEW s, NEW f, NEW d
  PROVE  /\ Goes(c, s) => Becomes(c, s, call[c].cfg, call[c].data, call[c].moved)
         /\ call' = [call EXCEPT ![c].cfg = f, ![c].at = s]
              => Becomes(c, s, f, call[c].data, call[c].moved)
         /\ call' = [call EXCEPT ![c].at = s, ![c].data = d, ![c].moved = FALSE]
              => Becomes(c, s, call[c].cfg, d, FALSE)
         /\ call' = [call EXCEPT ![c].at = s, ![c].data = d]
              => Becomes(c, s, call[c].cfg, d, call[c].moved)
<1>1. call[c] \in Call
  BY DEF Threads
<1>2. [call[c] EXCEPT !.at = s]
        = [op |-> call[c].op, at |-> s, cfg |-> call[c].cfg, data |-> call[c].data, moved |-> call[c].moved]
  BY <1>1 DEF Call
<1>3. ASSUME Goes(c, s) PROVE Becomes(c, s, call[c].cfg, call[c].data, call[c].moved)
  BY <1>2, <1>3 DEF Goes, Becomes
<1>4. ASSUME call' = [call EXCEPT ![c].cfg = f, ![c].at = s]
      PROVE  Becomes(c, s, f, call[c].data, call[c].moved)
  BY <1>4, SetRemade DEF Becomes
<1>5. ASSUME NEW b, call' = [call EXCEPT ![c].at = s, ![c].data = d, ![c].moved = b]
      PROVE  Becomes(c, s, call[c].cfg, d, b)
  BY <1>5, SaveRemade DEF Becomes
<1>6. ASSUME call' = [call EXCEPT ![c].at = s, ![c].data = d]
      PROVE  Becomes(c, s, call[c].cfg, d, call[c].moved)
  BY <1>6, ReadRemade DEF Becomes
<1> QED
  BY <1>3, <1>4, <1>5, <1>6

LEMMA BecomesMoves ==
  ASSUME Threads, NEW c \in Calls, call[c] # None, NEW s, NEW f, NEW d, NEW b, Becomes(c, s, f, d, b)
  PROVE  /\ \A o \in Calls : o # c => call'[o] = call[o]
         /\ call'[c].op = call[c].op /\ call'[c].at = s /\ call'[c].cfg = f /\ call'[c].data = d
         /\ call'[c].moved = b
         /\ call'[c] = [op |-> call[c].op, at |-> s, cfg |-> f, data |-> d, moved |-> b]
<1> DEFINE x == [op |-> call[c].op, at |-> s, cfg |-> f, data |-> d, moved |-> b]
<1>1. x.op = call[c].op /\ x.at = s /\ x.cfg = f /\ x.data = d /\ x.moved = b
  OBVIOUS
<1>2. call' = [call EXCEPT ![c] = x] /\ DOMAIN call = Calls
  BY DEF Becomes, Threads
<1> HIDE DEF x
<1>3. call'[c] = x /\ \A o \in Calls : o # c => call'[o] = call[o]
  BY <1>2
<1> QED
  BY <1>1, <1>3 DEF x

LEMMA BecomesKeeps ==
  ASSUME Threads, NEW c \in Calls, call[c] # None, NEW s \in Stages, NEW f \in Config \cup {None},
         NEW d \in Config \cup {None}, NEW b \in BOOLEAN, Becomes(c, s, f, d, b),
         load'.platform = load.platform, mem # None => mem' # None,
         IF load.platform = "linux" /\ call[c].op.op \notin {"seen", "start"} THEN f # None ELSE mem' # None,
         f # None => load.platform = "linux" /\ call[c].op.op # "start",
         s \in {"stopped", "read", "loaded"} => mem' # None,
         s \in {"writing", "written"} => d # None,
         s = "left" => call[c].op.op \in {"join", "signin"},
         s = "saved" => call[c].op.op = "pause",
         s = "read" => load.platform = "linux",
         call[c].op.op = "start" => s \in {"restart", "stopped", "read", "loaded"},
         call[c].op.op = "seen" => s \in {"begun", "changed", "writing", "written"}
  PROVE  Threads'
<1> DEFINE x == [op |-> call[c].op, at |-> s, cfg |-> f, data |-> d, moved |-> b]
<1>1. call[c] \in Call /\ Fits(call[c], mem, load)
  BY DEF Threads
<1>2. x \in Call
  BY <1>1, Remade
<1>3. x.op = call[c].op /\ x.at = s /\ x.cfg = f /\ x.data = d
  OBVIOUS
<1>4. call' = [call EXCEPT ![c] = x]
  BY DEF Becomes
<1> HIDE DEF x
<1>5. Fits(x, mem', load')
  BY <1>1, <1>2, <1>3 DEF Fits
<1> QED
  BY <1>4, <1>5, Moves

\* A thread that goes on takes only its stage along.
LEMMA GoesMoves ==
  ASSUME Threads, NEW c \in Calls, call[c] # None, NEW s \in Stages, Goes(c, s)
  PROVE  /\ \A o \in Calls : o # c => call'[o] = call[o]
         /\ call'[c] \in Call /\ call'[c].op = call[c].op /\ call'[c].at = s
         /\ call'[c].cfg = call[c].cfg /\ call'[c].data = call[c].data
<1> DEFINE x == [call[c] EXCEPT !.at = s]
<1>1. call[c] \in Call /\ DOMAIN call = Calls
  BY DEF Threads
<1>2. x \in Call /\ x.op = call[c].op /\ x.at = s /\ x.cfg = call[c].cfg /\ x.data = call[c].data
  BY <1>1 DEF Call
<1>3. call' = [call EXCEPT ![c] = x]
  BY <1>1 DEF Goes
<1> HIDE DEF x
<1>4. call'[c] = x /\ \A o \in Calls : o # c => call'[o] = call[o]
  BY <1>1, <1>3
<1> QED
  BY <1>2, <1>4

LEMMA GoesKeeps ==
  ASSUME Threads, NEW c \in Calls, call[c] # None, NEW s \in Stages, Goes(c, s),
         load'.platform = load.platform, mem # None => mem' # None,
         s \in {"stopped", "loaded"} => mem' # None,
         s \in {"writing", "written"} => call[c].data # None,
         s \notin {"left", "saved", "read"},
         call[c].op.op = "start" => s \in {"restart", "stopped", "loaded"},
         call[c].op.op = "seen" => s \in {"begun", "changed", "writing", "written"}
  PROVE  Threads'
<1> DEFINE x == [call[c] EXCEPT !.at = s]
<1>1. call[c] \in Call /\ Fits(call[c], mem, load)
  BY DEF Threads
<1>2. x \in Call /\ x.op = call[c].op /\ x.at = s /\ x.cfg = call[c].cfg /\ x.data = call[c].data
  BY <1>1 DEF Call
<1>3. call' = [call EXCEPT ![c] = x]
  BY DEF Goes, Threads
<1> HIDE DEF x
<1>4. IF load'.platform = "linux" /\ x.op.op \notin {"seen", "start"} THEN x.cfg # None ELSE mem' # None
  BY <1>1, <1>2 DEF Fits
<1>5. x.op.op = "pause" => load'.platform # "linux"
  BY <1>1, <1>2 DEF Fits
<1>6. x.cfg # None => load'.platform = "linux" /\ x.op.op # "start"
  BY <1>1, <1>2 DEF Fits
<1>7. Fits(x, mem', load')
  BY <1>2, <1>4, <1>5, <1>6 DEF Fits
<1> QED
  BY <1>3, <1>7, Moves

\* What the predicates on threads mean.
LEMMA BusyFacts ==
  ASSUME Threads, NEW c \in Calls
  PROVE  /\ c \in Busy <=> call[c] # None
         /\ \A s : At(c, s) <=> call[c] # None /\ call[c].at = s
         /\ \A S : Does(c, S) <=> call[c] # None /\ call[c].op.op \in S
         /\ Command(c) <=> load.platform = "linux" /\ ~Does(c, {"seen", "start"})
         /\ Own(c) <=> call[c].cfg # None
         /\ call[c] # None => call[c] \in Call /\ Fits(call[c], mem, load)
BY DEF Busy, At, Does, Command, Own, Linux, Idle, Threads

LEMMA MineFacts ==
  ASSUME Threads, Files, NEW c \in Calls, call[c] # None
  PROVE  Mine(c) \in Config
<1>1. call[c].cfg \in Config \cup {None}
  BY OpFacts, BusyFacts
<1> QED
  BY <1>1, BusyFacts DEF Mine, Fits, Files

LEMMA SetKeeps ==
  ASSUME Threads, Files, NEW c \in Calls, call[c] # None, NEW f \in Config, NEW s \in {"left", "changed"},
         Set(c, f, s), load'.platform = load.platform, call[c].op.op # "start",
         s = "left" => call[c].op.op \in {"join", "signin"}
  PROVE  Threads' /\ mem' \in Config \cup {None} /\ (mem # None => mem' # None)
<1>1. /\ call[c] \in Call /\ Fits(call[c], mem, load) /\ f # None
      /\ call[c].cfg \in Config \cup {None} /\ call[c].data \in Config \cup {None} /\ call[c].moved \in BOOLEAN
  BY BusyFacts, OpFacts, NoneFacts
<1>2. s \in Stages
  BY DEF Stages
<1>3. CASE Own(c)
  <2>1. Becomes(c, s, f, call[c].data, call[c].moved) /\ UNCHANGED mem
    BY <1>3, GoesBecomes DEF Set
  <2>2. Threads'
    BY <1>1, <1>2, <1>3, <2>1, BecomesKeeps, BusyFacts DEF Fits
  <2> QED
    BY <2>1, <2>2 DEF Files
<1>4. CASE ~Own(c)
  <2>1. Becomes(c, s, call[c].cfg, call[c].data, call[c].moved) /\ mem' = f
    BY <1>4, GoesBecomes DEF Set
  <2>2. Threads'
    BY <1>1, <1>2, <1>4, <2>1, BecomesKeeps, BusyFacts DEF Fits
  <2> QED
    BY <1>1, <2>1, <2>2
<1> QED
  BY <1>3, <1>4

LEMMA EndsKeeps ==
  ASSUME Threads, NEW c \in Calls, Ends(c), load'.platform = load.platform, mem # None => mem' # None
  PROVE  Threads'
BY Moves DEF Ends, Idle

LEMMA GenerationsStay ==
  ASSUME Generations, UNCHANGED <<gen, stop>>, mem # None => mem' # None
  PROVE  Generations'
BY DEF Generations

LEMMA InitBase == Init => Base
<1> SUFFICES ASSUME Init PROVE Base
  OBVIOUS
<1>1. load \in World
  BY DesktopAssumption DEF Init
<1>2. [group |-> None, opt |-> FALSE, known |-> {}] \in Config
  BY DEF Config, Groups
<1>3. Files
  BY <1>2 DEF Init, Files
<1>4. Threads
  BY DEF Init, Threads, Idle
<1>5. DOMAIN gen = {}
  BY DEF Init
<1>6. Generations
  BY <1>5, DesktopAssumption DEF Init, Generations
<1>7. Shown
  BY DEF Init, Shown
<1>8. Outside
  BY <1>1 DEF Init, Outside
<1> QED
  BY <1>3, <1>4, <1>6, <1>7, <1>8 DEF Base

LEMMA StartProgramBase ==
  ASSUME Base, NEW c \in Calls, StartProgram(c)
  PROVE  Base'
<1> DEFINE x == [op |-> Start, at |-> "restart", cfg |-> None, data |-> None, moved |-> FALSE]
<1>1. mem' = file /\ file \in Config /\ mem' # None /\ mem = None
  BY NoneFacts DEF StartProgram, Base, Files
<1>2. x \in Call /\ x.op.op = "start" /\ x.at = "restart" /\ x.cfg = None
  BY DEF Call, Start, Stages
<1>3. call' = [call EXCEPT ![c] = x]
  BY DEF StartProgram
<1> HIDE DEF x
<1>4. Fits(x, mem', load')
  BY <1>1, <1>2 DEF Fits
<1>5. Threads'
  BY <1>1, <1>3, <1>4, Moves DEF StartProgram, Base
<1>6. Generations'
  BY <1>1, GenerationsStay DEF StartProgram, Base, running
<1>7. Files' /\ Shown' /\ Outside'
  BY <1>1 DEF StartProgram, Base, Files, Shown, Outside, disk, running, outside
<1> QED
  BY <1>5, <1>6, <1>7 DEF Base

LEMMA CrashBase ==
  ASSUME Base, Crash
  PROVE  Base'
<1>1. load' \in World /\ load'.platform = load.platform /\ load'.ops = load.ops
  BY SpendKeeps DEF Crash, Base, Outside
<1>2. mem' = None
  BY DEF Crash
<1>3. ASSUME NEW c \in Calls
      PROVE  \/ call'[c] = None
             \/ /\ call'[c] = call[c] /\ call[c] # None /\ Command(c)
                /\ call[c].at \notin {"stopped", "read", "loaded"}
  BY DEF Crash, Busy, Idle
<1>4. ASSUME NEW c \in Calls, call'[c] # None
      PROVE  Fits(call'[c], mem', load')
  <2>1. call'[c] = call[c] /\ Fits(call[c], mem, load) /\ Command(c)
        /\ call[c].at \notin {"stopped", "read", "loaded"} /\ call[c].op.op \notin {"seen", "start"}
    BY <1>3, <1>4, BusyFacts DEF Base
  <2> QED
    BY <1>1, <2>1 DEF Fits, Command, Linux
<1>5. call' \in [Calls -> Call \cup {None}]
  <2>1. \A c \in Calls : call'[c] \in Call \cup {None}
    BY <1>3 DEF Base, Threads
  <2> QED
    BY <2>1 DEF Crash
<1>6. Threads'
  BY <1>4, <1>5 DEF Threads
<1>7. DOMAIN gen' = {} /\ stop' = 0
  BY DEF Crash
<1>8. 0 \in 0..MaxGen /\ DOMAIN gen' = 1..0
  BY <1>7, DesktopAssumption
<1>9. Generations'
  BY <1>7, <1>8 DEF Generations
<1>10. Files'
  BY <1>2 DEF Crash, Base, Files, disk
<1>11. Shown'
  BY DEF Crash, Shown
<1>12. Outside'
  BY <1>1 DEF Crash, Base, Outside, outside
<1> QED
  BY <1>6, <1>9, <1>10, <1>11, <1>12 DEF Base

LEMMA BeginBase ==
  ASSUME Base, NEW c \in Calls, NEW o \in load.ops, Begin(c, o)
  PROVE  Base'
<1> DEFINE f == IF Linux /\ o.op # "seen" THEN file ELSE None
           x == [op |-> o, at |-> "begun", cfg |-> f, data |-> None, moved |-> FALSE]
<1>1. load \in World /\ o \in Ops
  BY DEF Base, Outside, World
<1>2. /\ o.op \in {"join", "signin", "leave", "pause", "settings", "forget", "seen"}
      /\ o.op = "pause" => ~Linux
      /\ IF Linux /\ o.op # "seen" THEN file # Part ELSE mem # None
  <2>1. o.op \in {"join", "signin", "leave", "pause", "settings", "forget", "seen"}
    BY <1>1 DEF Ops
  <2>2. CASE o.op = "seen"
    <3>1. DOMAIN gen # {}
      BY <2>2 DEF Begin
    <3>2. mem # None
      BY <3>1 DEF Base, Generations
    <3> QED
      BY <2>2, <3>2, "seen" # "pause"
  <2>3. CASE o.op # "seen" /\ Linux
    BY <2>1, <2>3 DEF Begin
  <2>4. CASE o.op # "seen" /\ ~Linux
    BY <2>1, <2>4 DEF Begin, Serving
  <2> QED
    BY <2>1, <2>2, <2>3, <2>4
<1>3. load' \in World /\ load'.platform = load.platform
  <2>1. load' = [load EXCEPT !.ops = @ \ {o}] /\ load.ops \ {o} \in SUBSET Ops
    BY <1>1 DEF Begin, World
  <2> QED
    BY <1>1, <2>1 DEF World
<1>4. f \in Config \cup {None} /\ (Linux /\ o.op # "seen" => f # None) /\ (f # None => Linux)
  BY <1>2, NoneFacts DEF Base, Files
<1>5. call' = [call EXCEPT ![c] = x] /\ UNCHANGED <<disk, mem, running, outside>>
  BY DEF Begin
<1> HIDE DEF f
<1>6. x \in Call /\ x.op = o /\ x.at = "begun" /\ x.cfg = f
  BY <1>1, <1>4 DEF Call, Stages
<1> HIDE DEF x
<1>7. Fits(x, mem', load')
  BY <1>2, <1>3, <1>4, <1>5, <1>6 DEF Fits, Linux
<1>8. Threads'
  BY <1>3, <1>5, <1>7, Moves DEF Base
<1>9. Generations'
  BY <1>5, GenerationsStay DEF Base, running
<1>10. Files' /\ Shown' /\ Outside'
  BY <1>3, <1>5 DEF Base, Files, Shown, Outside, disk, running, outside
<1> QED
  BY <1>8, <1>9, <1>10 DEF Base

\* What an operation on the settings leaves alone.
LEMMA SetBase ==
  ASSUME Base, NEW c \in Calls, call[c] # None, NEW f \in Config, NEW s \in {"left", "changed"},
         Set(c, f, s), UNCHANGED <<disk, running, load>>, revoked' \subseteq Tokens, UNCHANGED reachable,
         call[c].op.op # "start", s = "left" => call[c].op.op \in {"join", "signin"}
  PROVE  Base'
<1>1. Threads' /\ mem' \in Config \cup {None} /\ (mem # None => mem' # None)
  BY SetKeeps DEF Base
<1>2. Generations'
  BY <1>1, GenerationsStay DEF Base, running
<1>3. Files' /\ Shown' /\ Outside'
  BY <1>1 DEF Base, Files, Shown, Outside, disk, running
<1> QED
  BY <1>1, <1>2, <1>3 DEF Base

LEMMA LeaveGroupBase ==
  ASSUME Base, NEW c \in Calls, LeaveGroup(c)
  PROVE  Base'
<1>1. call[c] # None /\ call[c].op.op \in {"join", "signin", "leave"}
  BY BusyFacts DEF LeaveGroup, Base
<1>2. Left(Mine(c)) \in Config
  BY <1>1, MineFacts DEF Base, Left, Config, Groups
<1>3. revoked' \subseteq Tokens
  BY DEF LeaveGroup, Base, Outside
<1>4. CASE call[c].op.op = "leave"
  <2>1. Set(c, Left(Mine(c)), "changed")
    BY <1>1, <1>4, BusyFacts DEF LeaveGroup, Base
  <2> QED
    BY <1>1, <1>2, <1>3, <1>4, <2>1, SetBase DEF LeaveGroup
<1>5. CASE call[c].op.op # "leave"
  <2>1. Set(c, Left(Mine(c)), "left")
    BY <1>1, <1>5, BusyFacts DEF LeaveGroup, Base
  <2> QED
    BY <1>1, <1>2, <1>3, <1>5, <2>1, SetBase DEF LeaveGroup
<1> QED
  BY <1>4, <1>5

LEMMA SetGroupBase ==
  ASSUME Base, NEW c \in Calls, SetGroup(c)
  PROVE  Base'
<1> DEFINE f == [Mine(c) EXCEPT !.group = call[c].op.group]
<1>1. call[c] # None /\ call[c] \in Call /\ call[c].op.op \in {"join", "signin"}
  BY BusyFacts DEF SetGroup, Base, Fits
<1>2. call[c].op.group \in Groups
  BY <1>1, OpFacts
<1>3. f \in Config
  BY <1>1, <1>2, MineFacts DEF Base, Config
<1>4. Set(c, f, "changed") /\ UNCHANGED <<disk, running, outside, load>>
  BY DEF SetGroup
<1> HIDE DEF f
<1> QED
  BY <1>1, <1>3, <1>4, SetBase DEF Base, Outside, outside

LEMMA SetOptionBase ==
  ASSUME Base, NEW c \in Calls, SetOption(c)
  PROVE  Base'
<1> DEFINE f == [Mine(c) EXCEPT !.opt = ~@]
<1>1. call[c] # None /\ call[c].op.op \in {"pause", "settings"}
  BY BusyFacts DEF SetOption, Base
<1>2. Mine(c) \in Config
  BY <1>1, MineFacts DEF Base
<1>3. f \in Config
  BY <1>2, Zenon DEF Config
<1>4. Set(c, f, "changed") /\ UNCHANGED <<disk, running, outside, load>>
  BY DEF SetOption
<1> HIDE DEF f
<1> QED
  BY <1>1, <1>3, <1>4, SetBase DEF Base, Outside, outside

LEMMA ForgetBase ==
  ASSUME Base, NEW c \in Calls, Forget(c)
  PROVE  Base'
<1> DEFINE f == Forgotten(Mine(c), call[c].op.peer)
<1>1. call[c] # None /\ call[c].op.op = "forget"
  BY BusyFacts DEF Forget, Base
<1>2. f \in Config
  BY <1>1, MineFacts DEF Base, Forgotten, Config
<1>3. Set(c, f, "changed") /\ UNCHANGED <<disk, running, outside, load>>
  BY DEF Forget
<1> HIDE DEF f
<1> QED
  BY <1>1, <1>2, <1>3, SetBase DEF Base, Outside, outside

LEMMA SeenBase ==
  ASSUME Base, NEW c \in Calls, Seen(c)
  PROVE  Base'
<1> DEFINE m == Mine(c)
           f == Remembered(m, call[c].op.peer)
<1>1. call[c] # None /\ call[c] \in Call /\ call[c].op.op = "seen"
  BY BusyFacts DEF Seen, Base
<1>2. call[c].op.peer \in Peers /\ m \in Config
  BY <1>1, OpFacts, MineFacts DEF Base
<1> HIDE DEF m
<1>3. f \in Config
  BY <1>2 DEF Remembered, Config
<1>4. CASE f = m
  <2>1. Ends(c) /\ UNCHANGED <<mem, disk, running, outside, load>>
    BY <1>4 DEF Seen, m
  <2>2. Threads'
    BY <2>1, EndsKeeps DEF Base
  <2>3. Generations'
    BY <2>1, GenerationsStay DEF Base, running
  <2> QED
    BY <2>1, <2>2, <2>3 DEF Base, Files, Shown, Outside, disk, running, outside
<1>5. CASE f # m
  <2>1. Set(c, f, "changed") /\ UNCHANGED <<disk, running, outside, load>>
    BY <1>5 DEF Seen, m
  <2> HIDE DEF f
  <2> QED
    BY <1>1, <1>3, <2>1, SetBase DEF Base, Outside, outside
<1> QED
  BY <1>4, <1>5

LEMMA StepFacts ==
  ASSUME Base, NEW c \in Calls, call[c] # None
  PROVE  /\ call[c] \in Call /\ Fits(call[c], mem, load)
         /\ call[c].at \in Stages /\ call[c].cfg \in Config \cup {None}
         /\ call[c].data \in Config \cup {None} /\ call[c].moved \in BOOLEAN
         /\ call[c].op.op \in {"join", "signin", "leave", "pause", "settings", "forget", "seen", "start"}
BY BusyFacts, OpFacts DEF Base

LEMMA SaveOpenBase ==
  ASSUME Base, NEW c \in Calls, SaveOpen(c)
  PROVE  Base'
<1>1. call[c] # None /\ call[c].at = "changed"
  BY BusyFacts DEF SaveOpen, Base
<1>2. Mine(c) \in Config /\ Mine(c) # None
  BY <1>1, MineFacts, NoneFacts DEF Base
<1>3. Becomes(c, "writing", call[c].cfg, Mine(c), FALSE)
  BY <1>1, GoesBecomes DEF SaveOpen, Base
<1>4. UNCHANGED <<file, mem, running, outside, load>> /\ tmp' = Part
  BY DEF SaveOpen
<1>5. Threads'
  <2>1. /\ "writing" \in Stages /\ call[c].cfg \in Config \cup {None} /\ FALSE \in BOOLEAN
        /\ Mine(c) \in Config \cup {None} /\ call[c].op.op # "start"
        /\ IF load.platform = "linux" /\ call[c].op.op \notin {"seen", "start"}
           THEN call[c].cfg # None ELSE mem' # None
        /\ call[c].cfg # None => load.platform = "linux" /\ call[c].op.op # "start"
    BY <1>1, <1>2, <1>4, StepFacts DEF Fits, Stages
  <2> QED
    BY <1>1, <1>2, <1>3, <1>4, <2>1, BecomesKeeps DEF Base
<1>6. Generations'
  BY <1>4, GenerationsStay DEF Base, running
<1>7. Files' /\ Shown' /\ Outside'
  BY <1>4 DEF Base, Files, Shown, Outside, running, outside
<1> QED
  BY <1>5, <1>6, <1>7 DEF Base

LEMMA SaveWriteBase ==
  ASSUME Base, NEW c \in Calls, SaveWrite(c)
  PROVE  Base'
<1>1. call[c] # None /\ call[c].at = "writing"
  BY BusyFacts DEF SaveWrite, Base
<1>2. call[c].data \in Config
  BY <1>1, StepFacts DEF Fits
<1>3. Goes(c, "written") /\ "written" \in Stages /\ call[c].data # None
  BY <1>2, NoneFacts DEF SaveWrite, Stages
<1>4. UNCHANGED <<mem, running, outside, load>>
  BY DEF SaveWrite
<1>5. Threads'
  <2>1. call[c].op.op # "start"
    BY <1>1, StepFacts DEF Fits
  <2> QED
    BY <1>1, <1>3, <1>4, <2>1, GoesKeeps DEF Base
<1>6. Generations'
  BY <1>4, GenerationsStay DEF Base, running
<1>7. file' \in {file, call[c].data} /\ tmp' \in {tmp, call[c].data}
  BY DEF SaveWrite
<1>8. Files' /\ Shown' /\ Outside'
  BY <1>2, <1>4, <1>7 DEF Base, Files, Shown, Outside, running, outside
<1> QED
  BY <1>5, <1>6, <1>8 DEF Base

SavedAt(x, s) == [x EXCEPT !.at = s, !.data = None]

LEMMA SavedRemade ==
  ASSUME NEW x \in Call, NEW s \in Stages
  PROVE  SavedAt(x, s) \in Call /\ SavedAt(x, s).op = x.op /\ SavedAt(x, s).at = s
         /\ SavedAt(x, s).cfg = x.cfg
BY DEF Call, SavedAt

LEMMA MovedRemade ==
  ASSUME NEW x \in Call
  PROVE  /\ [x EXCEPT !.moved = TRUE] \in Call
         /\ [x EXCEPT !.moved = TRUE].op = x.op /\ [x EXCEPT !.moved = TRUE].at = x.at
         /\ [x EXCEPT !.moved = TRUE].cfg = x.cfg /\ [x EXCEPT !.moved = TRUE].data = x.data
BY DEF Call

LEMMA RenamedFacts ==
  ASSUME Base, NEW c \in Calls, call[c] # None, call[c].at = "written", NEW o \in Calls, Renamed(c, o) # None
  PROVE  /\ call[o] # None /\ Renamed(c, o) \in Call /\ Renamed(c, o).op = call[o].op
         /\ Renamed(c, o).cfg = call[o].cfg
         /\ o # c => Renamed(c, o).at = call[o].at /\ Renamed(c, o).data = call[o].data
         /\ o = c => IF call[c].op.op = "pause" THEN Renamed(c, o).at = "saved"
                     ELSE /\ Renamed(c, o).at = "restart"
                          /\ call[c].op.op \in {"join", "signin", "leave", "settings", "forget"}
                          /\ ~Linux => call[c].op.op # "forget"
<1>1. CASE o # c
  <2>1. Renamed(c, o) = IF At(o, "writing") THEN [call[o] EXCEPT !.moved = TRUE] ELSE call[o]
    BY <1>1 DEF Renamed
  <2>2. CASE At(o, "writing")
    BY <1>1, <2>1, <2>2, BusyFacts, StepFacts, MovedRemade DEF Base
  <2>3. CASE ~At(o, "writing")
    BY <1>1, <2>1, <2>3, StepFacts
  <2> QED
    BY <2>2, <2>3
<1>2. CASE o = c
  <2>0. call[c] \in Call /\ call[c].op.op # "start"
        /\ call[c].op.op \in {"join", "signin", "leave", "pause", "settings", "forget", "seen", "start"}
    BY StepFacts DEF Fits
  <2>1. ~(Does(c, {"seen"}) \/ (Does(c, {"forget"}) /\ ~Linux))
    BY <1>2 DEF Renamed, Idle
  <2>2. CASE Does(c, {"pause"})
    <3>1. Renamed(c, o) = SavedAt(call[c], "saved") /\ call[c].op.op = "pause"
      BY <1>2, <2>1, <2>2, BusyFacts DEF Renamed, SavedAt, Base
    <3>2. Renamed(c, o) \in Call /\ Renamed(c, o).op = call[c].op /\ Renamed(c, o).at = "saved"
          /\ Renamed(c, o).cfg = call[c].cfg
      BY <2>0, <3>1, SavedRemade DEF Stages
    <3> QED
      BY <1>2, <3>1, <3>2
  <2>3. CASE ~Does(c, {"pause"})
    <3>1. Renamed(c, o) = SavedAt(call[c], "restart")
      BY <1>2, <2>1, <2>3 DEF Renamed, SavedAt
    <3>2. /\ call[c].op.op \in {"join", "signin", "leave", "settings", "forget"}
          /\ ~Linux => call[c].op.op # "forget"
      BY <2>0, <2>1, <2>3, BusyFacts DEF Base
    <3>3. Renamed(c, o) \in Call /\ Renamed(c, o).op = call[c].op /\ Renamed(c, o).at = "restart"
          /\ Renamed(c, o).cfg = call[c].cfg
      BY <2>0, <3>1, SavedRemade DEF Stages
    <3> QED
      BY <1>2, <3>2, <3>3
  <2> QED
    BY <2>2, <2>3
<1> QED
  BY <1>1, <1>2

LEMMA SaveRenameBase ==
  ASSUME Base, NEW c \in Calls, SaveRename(c)
  PROVE  Base'
<1>1. call[c] # None /\ call[c].at = "written"
  BY BusyFacts DEF SaveRename, Base
<1>2. UNCHANGED <<mem, running, outside, load>>
  BY DEF SaveRename
<1>3. Generations'
  BY <1>2, GenerationsStay DEF Base, running
<1>4. CASE tmp = None
  <2>1. Ends(c) /\ UNCHANGED disk
    BY <1>4 DEF SaveRename
  <2>2. Threads'
    BY <1>2, <2>1, EndsKeeps DEF Base
  <2> QED
    BY <1>2, <1>3, <2>1, <2>2 DEF Base, Files, Shown, Outside, disk, running, outside
<1>5. CASE tmp # None
  <2>1. file' = tmp /\ tmp' = None /\ call' = [o \in Calls |-> Renamed(c, o)]
    BY <1>5 DEF SaveRename
  <2>2. ASSUME NEW o \in Calls, call'[o] # None
        PROVE  call'[o] \in Call /\ Fits(call'[o], mem', load')
    <3>0. call'[o] = Renamed(c, o)
      BY <2>1
    <3>1. call[o] # None /\ call[o] \in Call /\ Fits(call[o], mem, load)
      BY <1>1, <2>2, <3>0, RenamedFacts, StepFacts
    <3>2. CASE o # c
      BY <1>1, <1>2, <2>2, <3>0, <3>1, <3>2, RenamedFacts DEF Fits
    <3>3. CASE o = c
      BY <1>1, <1>2, <2>2, <3>0, <3>1, <3>3, RenamedFacts DEF Fits
    <3> QED
      BY <3>2, <3>3
  <2>3. Threads'
    BY <2>1, <2>2 DEF Threads
  <2> QED
    BY <1>2, <1>3, <1>5, <2>1, <2>3 DEF Base, Files, Shown, Outside, running, outside
<1> QED
  BY <1>4, <1>5

WithOpt(x, v) == [x EXCEPT !.opt = v]

LEMMA GenOpt ==
  ASSUME NEW x \in Generation, NEW v \in BOOLEAN
  PROVE  WithOpt(x, v) \in Generation
BY DEF Generation, WithOpt

LEMMA GenUp ==
  ASSUME NEW x \in Generation
  PROVE  [x EXCEPT !.up = FALSE] \in Generation
BY DEF Generation

LEMMA GenClient ==
  ASSUME NEW x \in Generation, NEW w \in ClientStages
  PROVE  [x EXCEPT !.client = w] \in Generation
BY DEF Generation

LEMMA GenerationsMove ==
  ASSUME Generations, NEW g \in DOMAIN gen, NEW x \in Generation, gen' = [gen EXCEPT ![g] = x],
         stop' \in {stop, 0}, mem # None => mem' # None
  PROVE  Generations'
<1>1. DOMAIN gen' = DOMAIN gen /\ \A h \in DOMAIN gen' : gen'[h] \in Generation
  BY DEF Generations
<1> QED
  BY <1>1 DEF Generations

LEMMA ApplySettingsBase ==
  ASSUME Base, NEW c \in Calls, ApplySettings(c)
  PROVE  Base'
<1>1. call[c] # None /\ call[c].at = "saved" /\ UNCHANGED <<disk, mem, stop, relay, signedOut, outside, load>>
  BY BusyFacts DEF ApplySettings, Base
<1>2. mem \in Config
  BY <1>1, StepFacts DEF Fits, Base, Files
<1>3. mem.opt \in BOOLEAN
  BY <1>2 DEF Config
<1>4. Threads'
  BY <1>1, EndsKeeps DEF Base, ApplySettings
<1>5. Generations'
  <2>1. CASE stop = 0
    BY <1>1, <2>1, GenerationsStay DEF Base, ApplySettings
  <2>2. CASE stop # 0
    <3>1. stop \in DOMAIN gen /\ gen[stop] \in Generation
      BY <2>2 DEF Base, Generations
    <3>2. WithOpt(gen[stop], mem.opt) \in Generation
      BY <1>3, <3>1, GenOpt
    <3>3. gen' = [gen EXCEPT ![stop] = WithOpt(gen[stop], mem.opt)]
      BY <2>2 DEF ApplySettings, WithOpt
    <3> QED
      BY <1>1, <3>1, <3>2, <3>3, GenerationsMove DEF Base
  <2> QED
    BY <2>1, <2>2
<1> QED
  BY <1>1, <1>4, <1>5 DEF Base, Files, Shown, Outside, disk, outside

LEMMA ReloadFailsBase ==
  ASSUME Base, NEW c \in Calls, ReloadFails(c)
  PROVE  Base'
<1>1. UNCHANGED <<disk, mem, running, outside, load>>
  BY DEF ReloadFails
<1>2. Threads'
  BY <1>1, EndsKeeps DEF Base, ReloadFails
<1>3. Generations'
  BY <1>1, GenerationsStay DEF Base, running
<1> QED
  BY <1>1, <1>2, <1>3 DEF Base, Files, Shown, Outside, disk, running, outside

LEMMA StopGenerationBase ==
  ASSUME Base, NEW c \in Calls, StopGeneration(c)
  PROVE  Base'
<1>1. /\ call[c] # None /\ call[c].at = "restart"
      /\ UNCHANGED <<disk, mem, relay, signedOut, outside, load>> /\ stop' = 0
  BY BusyFacts DEF StopGeneration, Base
<1>2. mem # None
  <2>1. CASE Does(c, {"start"})
    BY <1>1, <2>1, StepFacts, BusyFacts DEF Fits, Base
  <2>2. CASE Serving
    BY <2>2 DEF Serving
  <2> QED
    BY <2>1, <2>2 DEF StopGeneration
<1>3. Goes(c, "stopped") /\ "stopped" \in Stages
  BY DEF StopGeneration, Stages
<1>4. call[c].op.op # "seen"
  BY <1>1, StepFacts DEF Fits
<1>5. Threads'
  BY <1>1, <1>2, <1>3, <1>4, GoesKeeps DEF Base
<1>6. Generations'
  <2>1. CASE stop = 0
    BY <1>1, <2>1, GenerationsStay DEF Base, StopGeneration
  <2>2. CASE stop # 0
    <3>1. stop \in DOMAIN gen /\ gen[stop] \in Generation
      BY <2>2 DEF Base, Generations
    <3>2. [gen[stop] EXCEPT !.up = FALSE] \in Generation
      BY <3>1, GenUp
    <3>3. gen' = [gen EXCEPT ![stop] = [gen[stop] EXCEPT !.up = FALSE]]
      BY <2>2 DEF StopGeneration
    <3> QED
      BY <1>1, <3>1, <3>2, <3>3, GenerationsMove DEF Base
  <2> QED
    BY <2>1, <2>2
<1> QED
  BY <1>1, <1>5, <1>6 DEF Base, Files, Shown, Outside, disk, outside

LEMMA CallFailsBase ==
  ASSUME Base, NEW c \in Calls, CallFails(c)
  PROVE  Base'
<1>1. UNCHANGED <<disk, mem, running, outside>> /\ load' \in World /\ load'.platform = load.platform
  BY SpendKeeps DEF CallFails, Base, Outside
<1>2. Threads'
  BY <1>1, EndsKeeps DEF Base, CallFails
<1>3. Generations'
  BY <1>1, GenerationsStay DEF Base, running
<1> QED
  BY <1>1, <1>2, <1>3 DEF Base, Files, Shown, Outside, disk, running, outside

LEMMA ReadSettingsFacts ==
  ASSUME Base, NEW c \in Calls, ReadSettings(c)
  PROVE  /\ call[c] # None /\ call[c].at = "stopped" /\ Linux
         /\ UNCHANGED <<disk, mem, running, outside, failed, load>>
         /\ Becomes(c, "read", call[c].cfg, IF file = Part THEN None ELSE file, call[c].moved)
BY BusyFacts, GoesBecomes DEF ReadSettings, Base

LEMMA ReadSettingsBase ==
  ASSUME Base, NEW c \in Calls, ReadSettings(c)
  PROVE  Base'
<1> DEFINE d == IF file = Part THEN None ELSE file
<1>1. /\ call[c] # None /\ call[c].at = "stopped" /\ Linux
      /\ UNCHANGED <<disk, mem, running, outside, load>>
      /\ Becomes(c, "read", call[c].cfg, d, call[c].moved)
  BY ReadSettingsFacts
<1>2. d \in Config \cup {None} /\ "read" \in Stages
  BY DEF Base, Files, Stages
<1> HIDE DEF d
<1>3. Threads'
  <2>1. /\ call[c].cfg \in Config \cup {None} /\ call[c].moved \in BOOLEAN /\ mem' # None
        /\ call[c].op.op # "seen"
        /\ IF load.platform = "linux" /\ call[c].op.op \notin {"seen", "start"}
           THEN call[c].cfg # None ELSE mem' # None
        /\ call[c].cfg # None => load.platform = "linux" /\ call[c].op.op # "start"
    BY <1>1, StepFacts DEF Fits
  <2> QED
    BY <1>1, <1>2, <2>1, BecomesKeeps DEF Base, Linux
<1>4. Generations'
  BY <1>1, GenerationsStay DEF Base, running
<1> QED
  BY <1>1, <1>3, <1>4 DEF Base, Files, Shown, Outside, disk, running, outside

\* What a thread that remembers a device has when c has loaded the settings.
WithCfg(x, f) == [x EXCEPT !.cfg = f]
Loaded(c, o) ==
  IF o = c THEN SavedAt(call[o], "loaded")
  ELSE IF Does(o, {"seen"}) /\ ~Own(o) /\ call[c].data # None THEN WithCfg(call[o], mem)
  ELSE call[o]

LEMMA OtherConfig ==
  ASSUME NEW x \in Call, NEW f \in Config
  PROVE  /\ WithCfg(x, f) \in Call /\ WithCfg(x, f).op = x.op /\ WithCfg(x, f).at = x.at
         /\ WithCfg(x, f).cfg = f /\ WithCfg(x, f).data = x.data /\ WithCfg(x, f).moved = x.moved
BY DEF Call, WithCfg

LEMMA LoadSettingsFacts ==
  ASSUME Base, NEW c \in Calls, LoadSettings(c)
  PROVE  /\ call[c] # None /\ call[c].at = "read" /\ Linux
         /\ UNCHANGED <<disk, gen, stop, outside, load>>
         /\ mem \in Config /\ mem' = IF call[c].data = None THEN mem ELSE call[c].data
         /\ call[c].data \in Config \cup {None}
         /\ call' = [o \in Calls |-> Loaded(c, o)]
         /\ Mends
<1>1. call[c] # None /\ call[c].at = "read"
  BY BusyFacts DEF LoadSettings, Base
<1>2. Linux /\ mem \in Config /\ call[c].data \in Config \cup {None}
  BY <1>1, StepFacts DEF Fits, Base, Files, Linux
<1>3. call' = [o \in Calls |-> Loaded(c, o)]
  BY DEF LoadSettings, Loaded, SavedAt, WithCfg
<1>4. /\ UNCHANGED <<disk, gen, stop, outside, load>> /\ Mends
      /\ mem' = IF call[c].data = None THEN mem ELSE call[c].data
  BY DEF LoadSettings
<1> QED
  BY <1>1, <1>2, <1>3, <1>4

LEMMA LoadedFacts ==
  ASSUME Base, NEW c \in Calls, call[c] # None, mem \in Config, NEW o \in Calls
  PROVE  /\ Loaded(c, o) # None <=> call[o] # None
         /\ call[o] # None =>
              /\ Loaded(c, o) \in Call /\ Loaded(c, o).op = call[o].op
              /\ o = c => Loaded(c, o).at = "loaded" /\ Loaded(c, o).cfg = call[o].cfg
              /\ o # c => /\ Loaded(c, o).at = call[o].at /\ Loaded(c, o).data = call[o].data
                          /\ Loaded(c, o).moved = call[o].moved
                          /\ \/ Loaded(c, o) = call[o]
                             \/ Loaded(c, o).cfg = mem /\ call[o].op.op = "seen"
<1>1. CASE o = c
  <2>1. call[c] \in Call /\ Loaded(c, o) = SavedAt(call[c], "loaded")
    BY <1>1, StepFacts DEF Loaded
  <2> QED
    BY <1>1, <2>1, SavedRemade, NoneFacts DEF Stages
<1>2. CASE o # c /\ Does(o, {"seen"}) /\ ~Own(o) /\ call[c].data # None
  <2>1. call[o] # None /\ call[o] \in Call /\ call[o].op.op = "seen" /\ Loaded(c, o) = WithCfg(call[o], mem)
    BY <1>2, BusyFacts DEF Loaded, Base
  <2> QED
    BY <1>2, <2>1, OtherConfig, NoneFacts
<1>3. CASE o # c /\ ~(Does(o, {"seen"}) /\ ~Own(o) /\ call[c].data # None)
  <2>1. Loaded(c, o) = call[o]
    BY <1>3 DEF Loaded
  <2> QED
    BY <1>3, <2>1, StepFacts
<1> QED
  BY <1>1, <1>2, <1>3

LEMMA LoadSettingsBase ==
  ASSUME Base, NEW c \in Calls, LoadSettings(c)
  PROVE  Base'
<1>1. /\ call[c] # None /\ call[c].at = "read" /\ Linux
      /\ UNCHANGED <<disk, gen, stop, outside, load>> /\ mem \in Config
      /\ call' = [o \in Calls |-> Loaded(c, o)]
  BY LoadSettingsFacts
<1>2. mem' \in Config /\ mem # None /\ mem' # None
  BY <1>1, LoadSettingsFacts, NoneFacts
<1>3. ASSUME NEW o \in Calls, call'[o] # None
      PROVE  call'[o] \in Call /\ Fits(call'[o], mem', load')
  <2>1. call'[o] = Loaded(c, o)
    BY <1>1
  <2>2. call[o] # None /\ call'[o] \in Call /\ call'[o].op = call[o].op
    BY <1>1, <1>3, <2>1, LoadedFacts
  <2>3. Fits(call[o], mem, load)
    BY <2>2, StepFacts
  <2>4. CASE o = c
    <3>1. call'[o].at = "loaded" /\ call'[o].cfg = call[o].cfg /\ call[o].op.op # "seen"
      BY <1>1, <2>1, <2>2, <2>3, <2>4, LoadedFacts DEF Fits
    <3> QED
      BY <1>1, <1>2, <2>2, <2>3, <3>1 DEF Fits
  <2>5. CASE o # c
    <3>1. call'[o].at = call[o].at /\ call'[o].data = call[o].data
          /\ (call'[o] = call[o] \/ (call'[o].cfg = mem /\ call[o].op.op = "seen"))
      BY <1>1, <2>1, <2>2, <2>5, LoadedFacts
    <3> QED
      BY <1>1, <1>2, <2>2, <2>3, <3>1 DEF Fits, Linux
  <2> QED
    BY <2>4, <2>5
<1>4. Threads'
  BY <1>1, <1>3 DEF Threads
<1>5. Generations'
  BY <1>1, <1>2, GenerationsStay DEF Base
<1>6. Shown'
  BY DEF LoadSettings, Shown
<1> QED
  BY <1>1, <1>2, <1>4, <1>5, <1>6 DEF Base, Files, Outside, disk, outside

\* The generation that Build adds.
Fresh ==
  [group |-> mem.group, opt |-> mem.opt, up |-> TRUE,
   client |-> IF mem.group \in Tokens THEN "dial" ELSE "ended"]

LEMMA BuildFacts ==
  ASSUME Base, NEW c \in Calls, Build(c)
  PROVE  /\ call[c] # None /\ call[c].at = IF Linux THEN "loaded" ELSE "stopped"
         /\ mem \in Config /\ UNCHANGED <<disk, mem, outside, load>> /\ Ends(c)
         /\ mem.group = None => UNCHANGED <<gen, stop>>
         /\ mem.group # None =>
              \E n \in Nat : /\ DOMAIN gen = 1..n /\ n + 1 \in 1..MaxGen
                             /\ DOMAIN gen' = 1..(n + 1) /\ stop' = n + 1
                             /\ gen'[n + 1] = Fresh /\ Fresh \in Generation
                             /\ \A h \in 1..n : gen'[h] = gen[h]
<1>1. call[c] # None /\ call[c].at = IF Linux THEN "loaded" ELSE "stopped"
  BY BusyFacts DEF Build, Base
<1>2. mem \in Config
  BY <1>1, StepFacts DEF Fits, Base, Files
<1>3. ASSUME mem.group # None
      PROVE  \E n \in Nat : /\ DOMAIN gen = 1..n /\ n + 1 \in 1..MaxGen
                            /\ DOMAIN gen' = 1..(n + 1) /\ stop' = n + 1
                            /\ gen'[n + 1] = Fresh /\ Fresh \in Generation
                            /\ \A h \in 1..n : gen'[h] = gen[h]
  <2>1. PICK n \in 0..MaxGen : DOMAIN gen = 1..n
    BY DEF Base, Generations
  <2>2. n \in Nat /\ Cardinality(DOMAIN gen) = n
    BY <2>1, FS_Interval, DesktopAssumption
  <2>3. /\ n + 1 \in 1..MaxGen /\ stop' = n + 1
        /\ gen' = [h \in 1..(n + 1) |-> IF h # n + 1 THEN gen[h] ELSE Fresh]
    BY <1>3, <2>2 DEF Build, Fresh
  <2>4. mem.group \in Codes \cup Tokens /\ mem.opt \in BOOLEAN
    BY <1>2, <1>3 DEF Config, Groups
  <2>5. Fresh \in Generation
    BY <2>4 DEF Fresh, Generation, ClientStages
  <2> HIDE DEF Fresh
  <2> QED
    BY <2>1, <2>2, <2>3, <2>5
<1>4. UNCHANGED <<disk, mem, outside, load>> /\ Ends(c)
  BY DEF Build
<1>5. mem.group = None => UNCHANGED <<gen, stop>>
  BY DEF Build
<1> QED
  BY <1>1, <1>2, <1>3, <1>4, <1>5

LEMMA BuildBase ==
  ASSUME Base, NEW c \in Calls, Build(c)
  PROVE  Base'
<1>1. mem \in Config /\ UNCHANGED <<disk, mem, outside, load>> /\ Ends(c)
  BY BuildFacts
<1>2. Threads'
  BY <1>1, EndsKeeps DEF Base
<1>3. Generations'
  <2>1. CASE mem.group = None
    BY <1>1, <2>1, BuildFacts, GenerationsStay DEF Base
  <2>2. CASE mem.group # None
    <3>1. PICK n \in Nat : /\ DOMAIN gen = 1..n /\ n + 1 \in 1..MaxGen
                           /\ DOMAIN gen' = 1..(n + 1) /\ stop' = n + 1
                           /\ gen'[n + 1] = Fresh /\ Fresh \in Generation
                           /\ \A h \in 1..n : gen'[h] = gen[h]
      BY <2>2, BuildFacts
    <3>2. \A h \in DOMAIN gen' : gen'[h] \in Generation
      BY <3>1 DEF Base, Generations
    <3>3. n + 1 \in 0..MaxGen /\ mem' # None
      BY <1>1, <3>1, NoneFacts, DesktopAssumption
    <3> QED
      BY <3>1, <3>2, <3>3 DEF Generations
  <2> QED
    BY <2>1, <2>2
<1>4. Shown'
  BY DEF Build, Base, Shown
<1> QED
  BY <1>1, <1>2, <1>3, <1>4 DEF Base, Files, Outside, disk, outside

-----------------------------------------------------------------------------
(* The client and the world.                                               *)

LEMMA ClientBase ==
  ASSUME Base, NEW g \in DOMAIN gen, NEW w \in ClientStages, gen' = [gen EXCEPT ![g].client = w],
         UNCHANGED <<disk, mem, call, stop, outside>>, Shown',
         load' \in World, load'.platform = load.platform
  PROVE  Base'
<1>1. gen[g] \in Generation
  BY DEF Base, Generations
<1>2. [gen[g] EXCEPT !.client = w] \in Generation
  BY <1>1, GenClient
<1>3. gen' = [gen EXCEPT ![g] = [gen[g] EXCEPT !.client = w]]
  OBVIOUS
<1>4. Generations'
  BY <1>2, <1>3, GenerationsMove DEF Base
<1>5. Threads'
  BY ThreadsStay DEF Base
<1> QED
  BY <1>4, <1>5 DEF Base, Files, Outside, disk, outside

\* What a step of a client does.
LEMMA RunFacts ==
  ASSUME Base, NEW g \in DOMAIN gen, Run(g) \/ ClosedByServer(g)
  PROVE  /\ \E w \in ClientStages : gen' = [gen EXCEPT ![g].client = w]
         /\ UNCHANGED <<disk, mem, call, stop, outside, failed, load>> /\ Shown'
<1>1. ASSUME NEW a, NEW b \in ClientStages, Client(g, a, b)
      PROVE  /\ \E w \in ClientStages : gen' = [gen EXCEPT ![g].client = w]
             /\ UNCHANGED <<disk, mem, call, stop, outside, failed, load>>
  BY <1>1 DEF Client
<1>2. ASSUME UNCHANGED <<relay, signedOut>> PROVE Shown'
  BY <1>2 DEF Base, Shown
<1>3. ASSUME NEW a \in BOOLEAN, NEW b \in BOOLEAN, Shows(g, a, b) PROVE Shown'
  <2>1. (signedOut \/ b) \in BOOLEAN
    OBVIOUS
  <2> QED
    BY <1>3, <2>1 DEF Shows, Shown
<1>4. CASE Dial(g)
  <2> DEFINE w == IF ~gen[g].up THEN "ended" ELSE IF ~reachable THEN "failed"
                  ELSE IF gen[g].group \in revoked THEN "refused" ELSE "linked"
  <2>1. w \in ClientStages
    BY DEF ClientStages
  <2>2. Client(g, "dial", w)
    BY <1>4 DEF Dial
  <2> HIDE DEF w
  <2> QED
    BY <1>1, <1>2, <1>4, <2>1, <2>2 DEF Dial
<1>5. CASE Connected(g)
  BY <1>1, <1>3, <1>5 DEF Connected, ClientStages
<1>6. CASE SessionEnds(g)
  BY <1>1, <1>2, <1>6 DEF SessionEnds, ClientStages
<1>7. CASE Fails(g)
  BY <1>1, <1>2, <1>7 DEF Fails, ClientStages
<1>8. CASE ShowsError(g)
  BY <1>1, <1>3, <1>8 DEF ShowsError, ClientStages
<1>9. CASE Refused(g)
  BY <1>1, <1>2, <1>9 DEF Refused, ClientStages
<1>10. CASE SignedOut(g)
  <2>1. relay \in BOOLEAN
    BY DEF Base, Shown
  <2> QED
    BY <1>1, <1>3, <1>10, <2>1 DEF SignedOut, ClientStages
<1>11. CASE Waited(g)
  BY <1>1, <1>2, <1>11 DEF Waited, ClientStages
<1>12. CASE ShowsRefusal(g)
  BY <1>1, <1>3, <1>12 DEF ShowsRefusal, ClientStages
<1>13. CASE ClosedByServer(g)
  BY <1>1, <1>2, <1>13 DEF ClosedByServer, ClientStages
<1> QED
  BY <1>4, <1>5, <1>6, <1>7, <1>8, <1>9, <1>10, <1>11, <1>12, <1>13 DEF Run

LEMMA LostFacts ==
  ASSUME Base, NEW g \in DOMAIN gen, Lost(g)
  PROVE  /\ gen' = [gen EXCEPT ![g].client = "failed"]
         /\ UNCHANGED <<disk, mem, call, stop, relay, signedOut, outside, failed>>
         /\ load' \in World /\ load'.platform = load.platform /\ load'.atOnce = load.atOnce
         /\ load'.ops = load.ops
BY SpendKeeps DEF Lost, Base, Outside

LEMMA TurnFacts ==
  ASSUME Base, Turn \/ \E t \in Tokens : Revoke(t)
  PROVE  /\ UNCHANGED <<disk, mem, call, running, failed>>
         /\ revoked' \subseteq Tokens /\ reachable' \in BOOLEAN
         /\ load' \in World /\ load'.platform = load.platform /\ load'.atOnce = load.atOnce
         /\ load'.ops = load.ops
<1>1. CASE Turn
  <2>1. Spend("turns") /\ UNCHANGED <<disk, mem, call, running, revoked, failed>>
    BY <1>1 DEF Turn
  <2>2. reachable' \in BOOLEAN
    BY <1>1, Zenon DEF Turn
  <2> QED
    BY <2>1, <2>2, SpendKeeps DEF Base, Outside
<1>2. CASE \E t \in Tokens : Revoke(t)
  <2>1. PICK t \in Tokens : Revoke(t)
    BY <1>2
  <2>2. Spend("turns") /\ UNCHANGED <<disk, mem, call, running, reachable, failed>> /\ revoked' = revoked \cup {t}
    BY <2>1 DEF Revoke
  <2> QED
    BY <2>2, SpendKeeps DEF Base, Outside
<1> QED
  BY <1>1, <1>2

LEMMA TurnBase ==
  ASSUME Base, Turn \/ \E t \in Tokens : Revoke(t)
  PROVE  Base'
<1>1. UNCHANGED <<disk, mem, call, running>> /\ load'.platform = load.platform
  BY TurnFacts
<1>2. Threads' /\ Generations'
  BY <1>1, ThreadsStay, GenerationsStay DEF Base, running
<1>3. Outside'
  BY TurnFacts DEF Outside
<1> QED
  BY <1>1, <1>2, <1>3 DEF Base, Files, Shown, disk, running

LEMMA StutterBase ==
  ASSUME Base, UNCHANGED vars
  PROVE  Base'
<1>1. Threads' /\ Generations'
  BY ThreadsStay, GenerationsStay DEF Base, vars
<1> QED
  BY <1>1 DEF Base, Files, Shown, Outside, vars

\* The steps, one by one.
LEMMA NextCases ==
  ASSUME [Next]_vars
  PROVE  \/ \E c \in Calls : \/ LeaveGroup(c) \/ SetGroup(c) \/ SetOption(c) \/ Forget(c) \/ Seen(c)
         \/ \E c \in Calls : SaveOpen(c) \/ SaveWrite(c) \/ SaveRename(c) \/ ApplySettings(c)
         \/ \E c \in Calls : ReloadFails(c) \/ StopGeneration(c) \/ ReadSettings(c) \/ LoadSettings(c) \/ Build(c)
         \/ \E c \in Calls : CallFails(c)
         \/ \E c \in Calls : StartProgram(c) \/ \E o \in load.ops : Begin(c, o)
         \/ \E g \in DOMAIN gen : (Run(g) \/ ClosedByServer(g)) \/ Lost(g)
         \/ Crash
         \/ Turn \/ \E t \in Tokens : Revoke(t)
         \/ UNCHANGED vars
BY DEF Next, Work

LEMMA StepBase == Base /\ [Next]_vars => Base'
<1> SUFFICES ASSUME Base, [Next]_vars PROVE Base'
  OBVIOUS
<1>1. ASSUME NEW c \in Calls, LeaveGroup(c) \/ SetGroup(c) \/ SetOption(c) \/ Forget(c) \/ Seen(c)
      PROVE  Base'
  BY <1>1, LeaveGroupBase, SetGroupBase, SetOptionBase, ForgetBase, SeenBase
<1>2. ASSUME NEW c \in Calls, SaveOpen(c) \/ SaveWrite(c) \/ SaveRename(c) \/ ApplySettings(c)
      PROVE  Base'
  BY <1>2, SaveOpenBase, SaveWriteBase, SaveRenameBase, ApplySettingsBase
<1>3. ASSUME NEW c \in Calls, ReloadFails(c) \/ StopGeneration(c) \/ ReadSettings(c) \/ LoadSettings(c) \/ Build(c)
      PROVE  Base'
  BY <1>3, ReloadFailsBase, StopGenerationBase, ReadSettingsBase, LoadSettingsBase, BuildBase
<1>4. ASSUME NEW c \in Calls, StartProgram(c) \/ \E o \in load.ops : Begin(c, o)
      PROVE  Base'
  BY <1>4, StartProgramBase, BeginBase
<1>5. ASSUME NEW g \in DOMAIN gen, Run(g) \/ ClosedByServer(g)
      PROVE  Base'
  <2>1. PICK w \in ClientStages : gen' = [gen EXCEPT ![g].client = w]
    BY <1>5, RunFacts
  <2>2. UNCHANGED <<disk, mem, call, stop, outside, load>> /\ Shown'
    BY <1>5, RunFacts
  <2> QED
    BY <2>1, <2>2, ClientBase DEF Base, Outside
<1>6. ASSUME NEW g \in DOMAIN gen, Lost(g)
      PROVE  Base'
  <2>1. Shown' /\ "failed" \in ClientStages
    BY <1>6, LostFacts DEF Base, Shown, ClientStages
  <2> QED
    BY <1>6, <2>1, LostFacts, ClientBase
<1> QED
  BY <1>1, <1>2, <1>3, <1>4, <1>5, <1>6, CallFailsBase, CrashBase, TurnBase, StutterBase, NextCases

LEMMA AlwaysBase == Spec => []Base
BY InitBase, StepBase, PTL DEF Spec

-----------------------------------------------------------------------------
(* Restarts take turns.                                                    *)

Turns == InTurn /\ OneRunning /\ OneCall

LEMMA Means ==
  ASSUME NEW c \in Calls
  PROVE  /\ Restarting(c) <=> call[c] # None /\ call[c].at \in {"stopped", "read", "loaded"}
         /\ Restarting(c)' <=> call'[c] # None /\ call'[c].at \in {"stopped", "read", "loaded"}
         /\ Alone(c) <=> call[c] # None /\ call[c].op.op # "seen"
         /\ Alone(c)' <=> call'[c] # None /\ call'[c].op.op # "seen"
BY DEF Restarting, Alone, At, Does, Busy, Idle

\* No thread begins, and none enters a restart.
Calm ==
  \A o \in Calls : call'[o] # None =>
    /\ call[o] # None /\ call'[o].op = call[o].op
    /\ call'[o].at \in {"stopped", "read", "loaded"} => call[o].at \in {"stopped", "read", "loaded"}

LEMMA CalmTurns ==
  ASSUME Turns, Calm, stop' = stop, load'.platform = load.platform, load'.atOnce = load.atOnce,
         \A g \in DOMAIN gen' : gen'[g].up => g \in DOMAIN gen /\ gen[g].up
  PROVE  Turns'
<1>1. \A o \in Calls : (Restarting(o)' => Restarting(o)) /\ (Alone(o)' => Alone(o))
  BY Means DEF Calm
<1>2. OneRunning'
  BY DEF Turns, OneRunning
<1>3. OneCall'
  BY DEF Turns, OneCall, Linux
<1>4. InTurn'
  BY <1>1 DEF Turns, InTurn, Linux
<1> QED
  BY <1>2, <1>3, <1>4 DEF Turns

LEMMA EndsCalm ==
  ASSUME Threads, NEW c \in Calls, Ends(c)
  PROVE  Calm /\ call'[c] = None /\ \A o \in Calls : o # c => call'[o] = call[o]
BY DEF Threads, Ends, Calm, Idle

LEMMA BecomesCalm ==
  ASSUME Threads, NEW c \in Calls, call[c] # None, NEW s, NEW f, NEW d, NEW b, Becomes(c, s, f, d, b),
         s \in {"stopped", "read", "loaded"} => call[c].at \in {"stopped", "read", "loaded"}
  PROVE  Calm
<1>1. \A o \in Calls : o # c => call'[o] = call[o]
  BY BecomesMoves
<1>2. call'[c].op = call[c].op /\ call'[c].at = s
  BY BecomesMoves
<1> QED
  BY <1>1, <1>2 DEF Calm

LEMMA SetMoves ==
  ASSUME Threads, NEW c \in Calls, call[c] # None, NEW f, NEW s, Set(c, f, s)
  PROVE  /\ Becomes(c, s, IF Own(c) THEN f ELSE call[c].cfg, call[c].data, call[c].moved)
         /\ mem' = IF Own(c) THEN mem ELSE f
<1>1. CASE Own(c)
  BY <1>1, GoesBecomes DEF Set
<1>2. CASE ~Own(c)
  BY <1>2, GoesBecomes DEF Set
<1> QED
  BY <1>1, <1>2

\* What each operation on the settings sets.
LEMMA OperationFacts ==
  ASSUME Base, NEW c \in Calls, LeaveGroup(c) \/ SetGroup(c) \/ SetOption(c) \/ Forget(c) \/ Seen(c)
  PROVE  /\ call[c] # None /\ call[c].at \in {"begun", "left"} /\ UNCHANGED <<disk, running, failed, load>>
         /\ \/ Ends(c) /\ UNCHANGED mem /\ call[c].op.op = "seen"
            \/ \E f \in Config, s \in {"left", "changed"} :
                 /\ Set(c, f, s)
                 /\ call[c].op.op \in {"forget", "seen"} =>
                      f.group = Mine(c).group /\ f.opt = Mine(c).opt
                 /\ call[c].op.op = "pause" => f.group = Mine(c).group
<1>0. ASSUME call[c] # None PROVE Mine(c) \in Config
  BY <1>0, MineFacts DEF Base
<1>1. CASE LeaveGroup(c)
  <2>1. call[c] # None /\ call[c].at = "begun" /\ call[c].op.op \in {"join", "signin", "leave"}
    BY <1>1, BusyFacts DEF LeaveGroup, Base
  <2>2. Left(Mine(c)) \in Config
    BY <1>0, <2>1 DEF Left, Config, Groups
  <2>3. \E s \in {"left", "changed"} : Set(c, Left(Mine(c)), s)
    BY <1>1 DEF LeaveGroup
  <2>4. UNCHANGED <<disk, running, failed, load>>
    BY <1>1 DEF LeaveGroup
  <2> QED
    BY <2>1, <2>2, <2>3, <2>4
<1>2. CASE SetGroup(c)
  <2> DEFINE f == [Mine(c) EXCEPT !.group = call[c].op.group]
  <2>1. call[c] # None /\ call[c].at = "left" /\ call[c] \in Call /\ call[c].op.op \in {"join", "signin"}
    BY <1>2, BusyFacts DEF SetGroup, Base, Fits
  <2>2. f \in Config
    BY <1>0, <2>1, OpFacts DEF Config
  <2>3. Set(c, f, "changed")
    BY <1>2 DEF SetGroup
  <2>4. UNCHANGED <<disk, running, failed, load>>
    BY <1>2 DEF SetGroup
  <2> HIDE DEF f
  <2> QED
    BY <2>1, <2>2, <2>3, <2>4
<1>3. CASE SetOption(c)
  <2> DEFINE f == [Mine(c) EXCEPT !.opt = ~@]
  <2>1. call[c] # None /\ call[c].at = "begun" /\ call[c].op.op \in {"pause", "settings"}
    BY <1>3, BusyFacts DEF SetOption, Base
  <2>2. f \in Config
    BY <1>0, <2>1, Zenon DEF Config
  <2>3. f.group = Mine(c).group
    BY <1>0, <2>1 DEF Config
  <2>4. Set(c, f, "changed")
    BY <1>3 DEF SetOption
  <2>5. UNCHANGED <<disk, running, failed, load>>
    BY <1>3 DEF SetOption
  <2> HIDE DEF f
  <2> QED
    BY <2>1, <2>2, <2>3, <2>4, <2>5
<1>4. CASE Forget(c)
  <2> DEFINE f == Forgotten(Mine(c), call[c].op.peer)
  <2>1. call[c] # None /\ call[c].at = "begun" /\ call[c].op.op = "forget"
    BY <1>4, BusyFacts DEF Forget, Base
  <2>2. f \in Config /\ f.group = Mine(c).group /\ f.opt = Mine(c).opt
    BY <1>0, <2>1 DEF Forgotten, Config
  <2>3. Set(c, f, "changed") /\ UNCHANGED <<disk, running, failed, load>>
    BY <1>4 DEF Forget
  <2> HIDE DEF f
  <2> QED
    BY <2>1, <2>2, <2>3
<1>5. CASE Seen(c)
  <2> DEFINE m == Mine(c)
             f == Remembered(m, call[c].op.peer)
  <2>1. call[c] # None /\ call[c].at = "begun" /\ call[c] \in Call /\ call[c].op.op = "seen"
    BY <1>5, BusyFacts DEF Seen, Base
  <2>2. m \in Config
    BY <1>0, <2>1
  <2>3. UNCHANGED <<disk, running, failed, load>>
    BY <1>5 DEF Seen
  <2>4. (Ends(c) /\ UNCHANGED mem) \/ Set(c, f, "changed")
    BY <1>5 DEF Seen
  <2>5. f \in Config /\ f.group = m.group /\ f.opt = m.opt
    <3> HIDE DEF m
    <3> QED
      BY <2>1, <2>2, OpFacts DEF Remembered, Config
  <2> HIDE DEF f
  <2> QED
    BY <2>1, <2>3, <2>4, <2>5
<1> QED
  BY <1>1, <1>2, <1>3, <1>4, <1>5

LEMMA OperationCalm ==
  ASSUME Base, NEW c \in Calls,
         LeaveGroup(c) \/ SetGroup(c) \/ SetOption(c) \/ Forget(c) \/ Seen(c)
  PROVE  Calm
<1>1. call[c] # None
  BY OperationFacts
<1>2. CASE Ends(c)
  BY <1>2, EndsCalm DEF Base
<1>3. CASE ~Ends(c)
  <2>1. PICK f \in Config, s \in {"left", "changed"} : Set(c, f, s)
    BY <1>3, OperationFacts
  <2>2. Becomes(c, s, IF Own(c) THEN f ELSE call[c].cfg, call[c].data, call[c].moved)
    BY <1>1, <2>1, SetMoves DEF Base
  <2> QED
    BY <1>1, <2>2, BecomesCalm DEF Base
<1> QED
  BY <1>2, <1>3

LEMMA OperationTurns ==
  ASSUME Base, Turns, NEW c \in Calls,
         LeaveGroup(c) \/ SetGroup(c) \/ SetOption(c) \/ Forget(c) \/ Seen(c)
  PROVE  Turns'
<1>1. UNCHANGED <<running, load>>
  BY OperationFacts
<1> QED
  BY <1>1, OperationCalm, CalmTurns DEF running

LEMMA RenamedCalm ==
  ASSUME Base, NEW c \in Calls, call[c] # None, call[c].at = "written",
         call' = [o \in Calls |-> Renamed(c, o)]
  PROVE  Calm
<1>1. ASSUME NEW o \in Calls, call'[o] # None
      PROVE  /\ call[o] # None /\ call'[o].op = call[o].op
             /\ call'[o].at \in {"stopped", "read", "loaded"} => call[o].at \in {"stopped", "read", "loaded"}
  <2>1. call'[o] = Renamed(c, o)
    OBVIOUS
  <2> QED
    BY <1>1, <2>1, RenamedFacts
<1> QED
  BY <1>1 DEF Calm

LEMMA SaveCalm ==
  ASSUME Base, NEW c \in Calls, SaveOpen(c) \/ SaveWrite(c) \/ SaveRename(c) \/ ApplySettings(c)
  PROVE  Calm
<1>1. CASE SaveOpen(c)
  <2>1. call[c] # None /\ Becomes(c, "writing", call[c].cfg, Mine(c), FALSE)
    BY <1>1, BusyFacts, GoesBecomes DEF SaveOpen, Base
  <2> QED
    BY <2>1, BecomesCalm DEF Base
<1>2. CASE SaveWrite(c)
  <2>1. call[c] # None /\ Becomes(c, "written", call[c].cfg, call[c].data, call[c].moved)
    BY <1>2, BusyFacts, GoesBecomes DEF SaveWrite, Base
  <2> QED
    BY <2>1, BecomesCalm DEF Base
<1>3. CASE SaveRename(c)
  <2>1. call[c] # None /\ call[c].at = "written"
    BY <1>3, BusyFacts DEF SaveRename, Base
  <2>2. Ends(c) \/ call' = [o \in Calls |-> Renamed(c, o)]
    BY <1>3 DEF SaveRename
  <2> QED
    BY <2>1, <2>2, EndsCalm, RenamedCalm DEF Base
<1>4. CASE ApplySettings(c)
  BY <1>4, EndsCalm DEF ApplySettings, Base
<1> QED
  BY <1>1, <1>2, <1>3, <1>4

LEMMA SaveTurns ==
  ASSUME Base, Turns, NEW c \in Calls, SaveOpen(c) \/ SaveWrite(c) \/ SaveRename(c) \/ ApplySettings(c)
  PROVE  Turns'
<1>1. UNCHANGED <<stop, load>> /\ \A g \in DOMAIN gen' : gen'[g].up => g \in DOMAIN gen /\ gen[g].up
  <2>1. CASE SaveOpen(c) \/ SaveWrite(c) \/ SaveRename(c)
    BY <2>1 DEF SaveOpen, SaveWrite, SaveRename, running
  <2>2. CASE ApplySettings(c)
    <3>1. CASE stop = 0
      BY <2>2, <3>1 DEF ApplySettings
    <3>2. CASE stop # 0
      <4>1. stop \in DOMAIN gen /\ gen[stop] \in Generation
        BY <3>2 DEF Base, Generations
      <4>2. [gen[stop] EXCEPT !.opt = mem.opt].up = gen[stop].up
        BY <4>1 DEF Generation
      <4>3. gen' = [gen EXCEPT ![stop] = [gen[stop] EXCEPT !.opt = mem.opt]]
        BY <2>2, <3>2 DEF ApplySettings
      <4>4. UNCHANGED <<stop, load>>
        BY <2>2 DEF ApplySettings
      <4> QED
        BY <4>1, <4>2, <4>3, <4>4
    <3> QED
      BY <3>1, <3>2
  <2> QED
    BY <2>1, <2>2
<1> QED
  BY <1>1, SaveCalm, CalmTurns

\* The generation that StopGeneration stops is the only one that runs.
LEMMA StopGenerationTurns ==
  ASSUME Base, Turns, NEW c \in Calls, StopGeneration(c)
  PROVE  Turns'
<1>1. /\ call[c] # None /\ call[c].at = "restart" /\ stop' = 0 /\ UNCHANGED load
      /\ Goes(c, "stopped") /\ "stopped" \in Stages
      /\ Linux => \A o \in Calls : ~Restarting(o)
  BY BusyFacts DEF StopGeneration, Base, Stages
<1>2. call[c].op.op # "seen"
  BY <1>1, StepFacts DEF Fits
<1>3. /\ \A o \in Calls : o # c => call'[o] = call[o]
      /\ call'[c].op = call[c].op /\ call'[c].at = "stopped"
  BY <1>1, GoesMoves DEF Base
<1>4. \A o \in Calls : (Restarting(o)' => o = c \/ Restarting(o)) /\ (Alone(o)' => Alone(o))
  BY <1>1, <1>2, <1>3, Means
<1>5. Alone(c)
  BY <1>1, <1>2, Means
<1>6. \A o \in Calls : Restarting(o) => o = c
  <2>1. CASE Linux
    BY <1>1, <2>1
  <2>2. CASE ~Linux
    <3>1. \A o \in Calls : Restarting(o) => Alone(o)
      BY StepFacts, Means DEF Fits
    <3> QED
      BY <1>5, <2>2, <3>1 DEF Turns, InTurn
  <2> QED
    BY <2>1, <2>2
<1>7. OneRunning'
  <2>1. CASE stop = 0
    BY <1>1, <2>1 DEF StopGeneration, Turns, OneRunning
  <2>2. CASE stop # 0
    <3>1. stop \in DOMAIN gen /\ gen[stop] \in Generation
      BY <2>2 DEF Base, Generations
    <3>2. [gen[stop] EXCEPT !.up = FALSE].up = FALSE
      BY <3>1 DEF Generation
    <3>3. gen' = [gen EXCEPT ![stop] = [gen[stop] EXCEPT !.up = FALSE]]
      BY <2>2 DEF StopGeneration
    <3>4. \A g \in DOMAIN gen' : ~gen'[g].up
      BY <3>1, <3>2, <3>3 DEF Turns, OneRunning
    <3> QED
      BY <3>4 DEF OneRunning
  <2> QED
    BY <2>1, <2>2
<1>8. InTurn'
  BY <1>1, <1>4, <1>6 DEF Turns, InTurn, Linux
<1>9. OneCall'
  BY <1>1 DEF Turns, OneCall, Linux
<1> QED
  BY <1>7, <1>8, <1>9 DEF Turns

LEMMA BuildTurns ==
  ASSUME Base, Turns, NEW c \in Calls, Build(c)
  PROVE  Turns'
<1>1. call[c] # None /\ call[c].at \in {"stopped", "read", "loaded"} /\ Ends(c) /\ UNCHANGED load
  BY BuildFacts
<1>2. Calm /\ call'[c] = None /\ \A o \in Calls : o # c => call'[o] = call[o]
  BY <1>1, EndsCalm DEF Base
<1>3. Restarting(c) /\ stop = 0
  BY <1>1, Means DEF Turns, InTurn
<1>4. \A o \in Calls : ~Restarting(o)' /\ (Alone(o)' => Alone(o))
  BY <1>2, <1>3, Means DEF Turns, InTurn, Calm
<1>5. OneRunning'
  <2>1. CASE mem.group = None
    BY <2>1, BuildFacts DEF Turns, OneRunning
  <2>2. CASE mem.group # None
    <3>1. PICK n \in Nat : /\ DOMAIN gen = 1..n /\ DOMAIN gen' = 1..(n + 1) /\ stop' = n + 1
                           /\ \A h \in 1..n : gen'[h] = gen[h]
      BY <2>2, BuildFacts
    <3>2. \A h \in 1..n : ~gen'[h].up
      <4>1. \A h \in 1..n : gen[h].up => h = 0
        BY <1>3, <3>1 DEF Turns, OneRunning
      <4> QED
        BY <3>1, <4>1
    <3>3. \A h \in DOMAIN gen' : h \in 1..n \/ h = n + 1
      BY <3>1
    <3> QED
      BY <3>1, <3>2, <3>3 DEF OneRunning
  <2> QED
    BY <2>1, <2>2
<1>6. InTurn'
  BY <1>1, <1>4 DEF Turns, InTurn, Linux
<1>7. OneCall'
  BY <1>1 DEF Turns, OneCall, Linux
<1> QED
  BY <1>5, <1>6, <1>7 DEF Turns

LEMMA StartProgramTurns ==
  ASSUME Base, Turns, NEW c \in Calls, StartProgram(c)
  PROVE  Turns'
<1> DEFINE x == [op |-> Start, at |-> "restart", cfg |-> None, data |-> None, moved |-> FALSE]
<1>1. mem = None /\ call[c] = None /\ UNCHANGED <<running, load>> /\ call' = [call EXCEPT ![c] = x]
  BY DEF StartProgram, Idle
<1>2. x.at = "restart"
  OBVIOUS
<1> HIDE DEF x
<1>3. call'[c] = x /\ \A o \in Calls : o # c => call'[o] = call[o]
  BY <1>1 DEF Base, Threads
<1>4. \A o \in Calls : (Restarting(o)' => Restarting(o)) /\ (Alone(o)' => o = c \/ Alone(o))
  BY <1>2, <1>3, Means
<1>5. ~Linux => \A o \in Calls : ~Alone(o)
  BY <1>1, StepFacts, Means DEF Fits, Linux
<1>6. OneRunning'
  BY <1>1 DEF running, Turns, OneRunning
<1>7. InTurn'
  BY <1>1, <1>4, <1>5 DEF Turns, InTurn, Linux, running
<1>8. OneCall'
  BY <1>1 DEF Turns, OneCall, Linux
<1> QED
  BY <1>6, <1>7, <1>8 DEF Turns

\* Nobody else works when a window call or a command begins alone.
LEMMA NoOther ==
  ASSUME Base, load.atOnce <= 1, Cardinality(Limited) < load.atOnce
  PROVE  Limited = {}
<1>1. Limited \subseteq Calls
  BY DEF Limited, Busy
<1>2. IsFiniteSet(Limited)
  BY <1>1, DesktopAssumption, FS_Subset
<1>3. load.atOnce \in Nat /\ Cardinality(Limited) \in Nat
  BY <1>2, FS_CardinalityType DEF Base, Outside, World
<1>4. Cardinality(Limited) = 0
  BY <1>3
<1> QED
  BY <1>2, <1>4, FS_EmptySet

LEMMA BeginFile ==
  ASSUME Base, NEW c \in Calls, NEW o \in load.ops, Begin(c, o)
  PROVE  (IF Linux /\ o.op # "seen" THEN file ELSE None) \in Config \cup {None}
<1>1. Linux /\ o.op # "seen" => file # Part
  BY DEF Begin
<1> QED
  BY <1>1 DEF Base, Files

LEMMA BeginFacts ==
  ASSUME Base, NEW c \in Calls, NEW o \in load.ops, Begin(c, o)
  PROVE  /\ call[c] = None /\ UNCHANGED <<disk, mem, running, outside, failed>>
         /\ load'.platform = load.platform /\ load'.atOnce = load.atOnce /\ load'.ops \subseteq load.ops
         /\ \A u \in Calls : u # c => call'[u] = call[u]
         /\ call'[c] # None /\ call'[c].op = o /\ call'[c].at = "begun"
         /\ o.op = "seen" => call'[c].cfg = None
         /\ o.op \in {"join", "signin", "leave", "pause", "settings", "forget", "seen"}
         /\ Linux \/ o.op # "seen" => Cardinality(Limited) < load.atOnce
         /\ o.op # "seen" => (~Linux => Serving)
<1> DEFINE f == IF Linux /\ o.op # "seen" THEN file ELSE None
           x == [op |-> o, at |-> "begun", cfg |-> f, data |-> None, moved |-> FALSE]
<1>1. load \in World /\ o \in Ops
  BY DEF Base, Outside, World
<1>2. o.op \in {"join", "signin", "leave", "pause", "settings", "forget", "seen"}
  BY <1>1 DEF Ops
<1>3. load'.platform = load.platform /\ load'.atOnce = load.atOnce /\ load'.ops \subseteq load.ops
  BY <1>1 DEF Begin, World
<1>4. /\ call[c] = None /\ UNCHANGED <<disk, mem, running, outside, failed>>
      /\ call' = [call EXCEPT ![c] = x]
  BY DEF Begin, Idle
<1>5. /\ Linux \/ o.op # "seen" => Cardinality(Limited) < load.atOnce
      /\ o.op # "seen" => (~Linux => Serving)
  BY DEF Begin
<1>6. x.op = o /\ x.at = "begun" /\ (o.op = "seen" => x.cfg = None)
  OBVIOUS
<1> HIDE DEF x
<1>7. call'[c] = x /\ \A u \in Calls : u # c => call'[u] = call[u]
  BY <1>4 DEF Base, Threads
<1>8. x # None
  <2>1. f \in Config \cup {None}
    BY BeginFile
  <2>2. x \in Call
    BY <1>1, <2>1 DEF x, Call, Stages
  <2> QED
    BY <2>2, NoneFacts
<1> QED
  BY <1>2, <1>3, <1>4, <1>5, <1>6, <1>7, <1>8

LEMMA BeginTurns ==
  ASSUME Base, Turns, NEW c \in Calls, NEW o \in load.ops, Begin(c, o)
  PROVE  Turns'
<1>1. \A u \in Calls : u # c => call'[u] = call[u]
  BY BeginFacts
<1>2. \A u \in Calls : (Restarting(u)' => Restarting(u)) /\ (u # c /\ Alone(u)' => Alone(u))
  BY <1>1, BeginFacts, Means
<1>3. ASSUME ~Linux, Alone(c)' PROVE \A u \in Calls : ~Alone(u)
  <2>1. o.op # "seen"
    BY <1>3, BeginFacts, Means
  <2>2. Cardinality(Limited) < load.atOnce /\ Serving /\ load.atOnce <= 1
    BY <1>3, <2>1, BeginFacts DEF Turns, OneCall
  <2>3. Limited = {} /\ \A u \in Calls : ~Does(u, {"start"})
    BY <2>2, NoOther DEF Serving
  <2> QED
    BY <1>3, <2>3 DEF Limited, Alone, Does, Busy
<1>4. stop' = stop /\ gen' = gen /\ load'.platform = load.platform /\ load'.atOnce = load.atOnce
  BY BeginFacts DEF running
<1>5. InTurn'
  <2>1. \A u, v \in Calls : Restarting(u)' /\ Restarting(v)' => u = v
    BY <1>2 DEF Turns, InTurn
  <2>2. \A u \in Calls : Restarting(u)' => stop' = 0
    BY <1>2, <1>4 DEF Turns, InTurn
  <2>3. ~Linux => \A u, v \in Calls : Alone(u)' /\ Alone(v)' => u = v
    BY <1>2, <1>3 DEF Turns, InTurn
  <2> QED
    BY <1>4, <2>1, <2>2, <2>3 DEF InTurn, Linux
<1>6. OneRunning' /\ OneCall'
  BY <1>4 DEF Turns, OneRunning, OneCall, Linux
<1> QED
  BY <1>5, <1>6 DEF Turns

LEMMA ReloadCalm ==
  ASSUME Base, NEW c \in Calls, ReloadFails(c) \/ ReadSettings(c) \/ LoadSettings(c) \/ CallFails(c)
  PROVE  Calm
<1>1. CASE ReloadFails(c) \/ CallFails(c)
  BY <1>1, EndsCalm DEF ReloadFails, CallFails, Base
<1>2. CASE ReadSettings(c)
  BY <1>2, ReadSettingsFacts, BecomesCalm DEF Base
<1>3. CASE LoadSettings(c)
  <2>1. /\ call[c] # None /\ call[c].at = "read" /\ mem \in Config
        /\ call' = [o \in Calls |-> Loaded(c, o)]
    BY <1>3, LoadSettingsFacts
  <2>2. \A o \in Calls : call'[o] = Loaded(c, o)
    BY <2>1
  <2> QED
    BY <2>1, <2>2, LoadedFacts DEF Calm
<1> QED
  BY <1>1, <1>2, <1>3

LEMMA ReloadTurns ==
  ASSUME Base, Turns, NEW c \in Calls, ReloadFails(c) \/ ReadSettings(c) \/ LoadSettings(c) \/ CallFails(c)
  PROVE  Turns'
<1>1. UNCHANGED <<gen, stop>> /\ load'.platform = load.platform /\ load'.atOnce = load.atOnce
  <2>1. CASE CallFails(c)
    BY <2>1, SpendKeeps DEF CallFails, running, Base, Outside
  <2> QED
    BY <2>1 DEF ReloadFails, ReadSettings, LoadSettings, running
<1> QED
  BY <1>1, ReloadCalm, CalmTurns

LEMMA ClientTurns ==
  ASSUME Base, Turns, NEW g \in DOMAIN gen, (Run(g) \/ ClosedByServer(g)) \/ Lost(g)
  PROVE  Turns'
<1>1. /\ \E w \in ClientStages : gen' = [gen EXCEPT ![g].client = w]
      /\ UNCHANGED <<call, stop>> /\ load'.platform = load.platform /\ load'.atOnce = load.atOnce
  <2>1. CASE Run(g) \/ ClosedByServer(g)
    BY <2>1, RunFacts
  <2>2. CASE Lost(g)
    BY <2>2, LostFacts DEF ClientStages
  <2> QED
    BY <2>1, <2>2
<1>2. PICK w \in ClientStages : gen' = [gen EXCEPT ![g].client = w]
  BY <1>1
<1>3. gen[g] \in Generation
  BY DEF Base, Generations
<1>4. [gen[g] EXCEPT !.client = w].up = gen[g].up
  BY <1>3 DEF Generation
<1>5. \A h \in DOMAIN gen' : gen'[h].up => h \in DOMAIN gen /\ gen[h].up
  BY <1>2, <1>4
<1>6. Calm
  BY <1>1 DEF Calm
<1> QED
  BY <1>1, <1>5, <1>6, CalmTurns

LEMMA CrashTurns ==
  ASSUME Base, Turns, Crash
  PROVE  Turns'
<1>1. load'.platform = load.platform /\ load'.atOnce = load.atOnce
  BY SpendKeeps DEF Crash, Base, Outside
<1>2. \A c \in Calls : call'[c] # None => /\ call'[c] = call[c] /\ call[c] # None /\ Command(c)
                                           /\ call[c].at \notin {"stopped", "read", "loaded"}
  BY DEF Crash, Busy, Idle
<1>3. \A c \in Calls : ~Restarting(c)' /\ (Alone(c)' => Alone(c))
  BY <1>2, Means
<1>4. \A g \in DOMAIN gen' : ~gen'[g].up
  <2>1. DOMAIN gen' = {}
    BY DEF Crash
  <2> QED
    BY <2>1
<1>5. OneRunning'
  BY <1>4 DEF OneRunning
<1>6. InTurn'
  BY <1>1, <1>3 DEF Turns, InTurn, Linux
<1>7. OneCall'
  BY <1>1 DEF Turns, OneCall, Linux
<1> QED
  BY <1>5, <1>6, <1>7 DEF Turns

LEMMA StillTurns ==
  ASSUME Base, Turns, (Turn \/ \E t \in Tokens : Revoke(t)) \/ UNCHANGED vars
  PROVE  Turns'
<1>1. UNCHANGED <<call, gen, stop>> /\ load'.platform = load.platform /\ load'.atOnce = load.atOnce
  BY TurnFacts DEF running, vars
<1>2. Calm
  BY <1>1 DEF Calm
<1> QED
  BY <1>1, <1>2, CalmTurns

LEMMA StepTurns == Base /\ Turns /\ [Next]_vars => Turns'
<1> SUFFICES ASSUME Base, Turns, [Next]_vars PROVE Turns'
  OBVIOUS
<1>1. ASSUME NEW c \in Calls,
             \/ ReloadFails(c) \/ StopGeneration(c) \/ ReadSettings(c) \/ LoadSettings(c) \/ Build(c)
             \/ CallFails(c)
      PROVE  Turns'
  BY <1>1, ReloadTurns, StopGenerationTurns, BuildTurns
<1>2. ASSUME NEW c \in Calls, StartProgram(c) \/ \E o \in load.ops : Begin(c, o)
      PROVE  Turns'
  BY <1>2, StartProgramTurns, BeginTurns
<1> QED
  BY <1>1, <1>2, OperationTurns, SaveTurns, ClientTurns, CrashTurns, StillTurns, NextCases

LEMMA InitTurns == Init /\ OneCall => Turns
<1> SUFFICES ASSUME Init, OneCall PROVE Turns
  OBVIOUS
<1>1. \A c \in Calls : ~Restarting(c) /\ ~Alone(c)
  BY Means DEF Init, Idle
<1>2. InTurn
  BY <1>1 DEF InTurn
<1>3. OneRunning
  BY DEF Init, OneRunning
<1> QED
  BY <1>2, <1>3 DEF Turns

LEMMA AlwaysTurns == Spec /\ OneCall => []Turns
<1>1. Init /\ OneCall => Base /\ Turns
  BY InitBase, InitTurns
<1>2. Base /\ Turns /\ [Next]_vars => Base' /\ Turns'
  BY StepBase, StepTurns
<1> QED
  BY <1>1, <1>2, PTL DEF Spec

-----------------------------------------------------------------------------
(* What is there with the program that is starting, and for what it         *)
(* remembers; what calls that failed leave.                                *)

\* A program that starts has nothing running and no other restart; what it
\* remembers was seen by what it has run.
Alive ==
  \A c \in Calls : call[c] # None =>
    /\ call[c].op.op = "start" =>
         /\ DOMAIN gen = {}
         /\ \A o \in Calls : call[o] # None /\ (call[o].op.op = "start" \/ call[o].at \in {"stopped", "read", "loaded"})
              => o = c
    /\ call[c].op.op = "seen" => DOMAIN gen # {}

LEMMA CalmAlive ==
  ASSUME Alive, Calm, DOMAIN gen' = DOMAIN gen
  PROVE  Alive'
BY DEF Alive, Calm

LEMMA StopGenerationAlive ==
  ASSUME Base, Alive, NEW c \in Calls, StopGeneration(c)
  PROVE  Alive'
<1>1. /\ call[c] # None /\ call[c].at = "restart" /\ Goes(c, "stopped") /\ "stopped" \in Stages
      /\ Does(c, {"start"}) \/ Serving
  BY BusyFacts DEF StopGeneration, Base, Stages
<1>2. /\ \A o \in Calls : o # c => call'[o] = call[o]
      /\ call'[c].op = call[c].op /\ call'[c].at = "stopped"
  BY <1>1, GoesMoves DEF Base
<1>3. DOMAIN gen' = DOMAIN gen
  BY DEF StopGeneration
<1>4. \A s \in Calls : call[s] # None /\ call[s].op.op = "start" => s = c
  <2>1. CASE Serving
    BY <2>1, BusyFacts DEF Serving, Base
  <2>2. CASE Does(c, {"start"})
    BY <2>2, BusyFacts DEF Alive, Base
  <2> QED
    BY <1>1, <2>1, <2>2
<1>5. ASSUME NEW u \in Calls, call'[u] # None
      PROVE  /\ call[u] # None /\ call'[u].op = call[u].op
             /\ call'[u].at \in {"stopped", "read", "loaded"} => u = c \/ call[u].at \in {"stopped", "read", "loaded"}
  BY <1>1, <1>2, <1>5
<1> QED
  BY <1>3, <1>4, <1>5 DEF Alive

LEMMA BuildAlive ==
  ASSUME Base, Alive, NEW c \in Calls, Build(c)
  PROVE  Alive'
<1>1. call[c] # None /\ call[c].at \in {"stopped", "read", "loaded"} /\ Ends(c)
  BY BuildFacts
<1>2. Calm /\ call'[c] = None
  BY <1>1, EndsCalm DEF Base
<1>3. \A u \in Calls : call'[u] # None => call[u] # None /\ call'[u].op = call[u].op /\ u # c
  BY <1>2 DEF Calm
<1>4. \A u \in Calls : call'[u] # None => call'[u].op.op # "start"
  BY <1>1, <1>3 DEF Alive
<1>5. DOMAIN gen # {} => DOMAIN gen' # {}
  <2>1. CASE mem.group = None
    BY <2>1, BuildFacts
  <2>2. CASE mem.group # None
    <3>1. PICK n \in Nat : DOMAIN gen' = 1..(n + 1)
      BY <2>2, BuildFacts
    <3>2. n + 1 \in DOMAIN gen'
      BY <3>1
    <3> QED
      BY <3>2
  <2> QED
    BY <2>1, <2>2
<1> QED
  BY <1>3, <1>4, <1>5 DEF Alive

LEMMA StartProgramAlive ==
  ASSUME Base, NEW c \in Calls, StartProgram(c)
  PROVE  Alive'
<1> DEFINE x == [op |-> Start, at |-> "restart", cfg |-> None, data |-> None, moved |-> FALSE]
<1>1. mem = None /\ call[c] = None /\ UNCHANGED running /\ call' = [call EXCEPT ![c] = x]
  BY DEF StartProgram, Idle
<1>2. x.at = "restart" /\ x.op.op = "start"
  BY DEF Start
<1> HIDE DEF x
<1>3. call'[c] = x /\ \A o \in Calls : o # c => call'[o] = call[o]
  BY <1>1 DEF Base, Threads
<1>4. DOMAIN gen' = {}
  BY <1>1 DEF running, Base, Generations
<1>5. \A u \in Calls : call[u] # None => /\ call[u].op.op \notin {"start", "seen"}
                                         /\ call[u].at \notin {"stopped", "read", "loaded"}
  BY <1>1, StepFacts DEF Fits
<1> QED
  BY <1>2, <1>3, <1>4, <1>5 DEF Alive

LEMMA BeginAlive ==
  ASSUME Base, Alive, NEW c \in Calls, NEW o \in load.ops, Begin(c, o)
  PROVE  Alive'
<1>1. /\ \A u \in Calls : u # c => call'[u] = call[u]
      /\ call'[c].op = o /\ call'[c].at = "begun" /\ UNCHANGED gen
      /\ o.op \in {"join", "signin", "leave", "pause", "settings", "forget", "seen"}
  BY BeginFacts DEF running
<1>2. o.op = "seen" => DOMAIN gen # {}
  BY DEF Begin
<1> QED
  BY <1>1, <1>2 DEF Alive

LEMMA CrashAlive ==
  ASSUME Base, Crash
  PROVE  Alive'
<1>1. \A c \in Calls : call'[c] # None => call'[c] = call[c] /\ call[c] # None /\ Command(c)
  BY DEF Crash, Busy, Idle
<1>2. \A c \in Calls : call'[c] # None => call'[c].op.op \notin {"start", "seen"}
  BY <1>1, BusyFacts DEF Base
<1> QED
  BY <1>2 DEF Alive

LEMMA StepAlive == Base /\ Alive /\ [Next]_vars => Alive'
<1> SUFFICES ASSUME Base, Alive, [Next]_vars PROVE Alive'
  OBVIOUS
<1>1. ASSUME NEW c \in Calls, LeaveGroup(c) \/ SetGroup(c) \/ SetOption(c) \/ Forget(c) \/ Seen(c)
      PROVE  Alive'
  BY <1>1, OperationCalm, OperationFacts, CalmAlive DEF running
<1>2. ASSUME NEW c \in Calls, SaveOpen(c) \/ SaveWrite(c) \/ SaveRename(c) \/ ApplySettings(c)
      PROVE  Alive'
  <2>1. DOMAIN gen' = DOMAIN gen
    BY <1>2 DEF SaveOpen, SaveWrite, SaveRename, ApplySettings, running
  <2> QED
    BY <1>2, <2>1, SaveCalm, CalmAlive
<1>3. ASSUME NEW c \in Calls, ReloadFails(c) \/ ReadSettings(c) \/ LoadSettings(c) \/ CallFails(c)
      PROVE  Alive'
  <2>1. DOMAIN gen' = DOMAIN gen
    BY <1>3 DEF ReloadFails, ReadSettings, LoadSettings, CallFails, running
  <2> QED
    BY <1>3, <2>1, ReloadCalm, CalmAlive
<1>4. ASSUME NEW g \in DOMAIN gen, (Run(g) \/ ClosedByServer(g)) \/ Lost(g)
      PROVE  Alive'
  <2>1. UNCHANGED call /\ DOMAIN gen' = DOMAIN gen
    BY <1>4, RunFacts, LostFacts
  <2> QED
    BY <2>1, CalmAlive DEF Calm
<1>5. CASE (Turn \/ \E t \in Tokens : Revoke(t)) \/ UNCHANGED vars
  <2>1. UNCHANGED <<call, gen>>
    BY <1>5, TurnFacts DEF running, vars
  <2> QED
    BY <2>1, CalmAlive DEF Calm
<1> QED
  BY <1>1, <1>2, <1>3, <1>4, <1>5, StopGenerationAlive, BuildAlive, StartProgramAlive, BeginAlive,
     CrashAlive, NextCases

Failures == failed \subseteq {"save", "group", "option"}

LEMMA StepFailures == Failures /\ [Next]_vars => Failures'
<1> SUFFICES ASSUME Failures, [Next]_vars PROVE Failures'
  OBVIOUS
<1>1. ASSUME NEW c \in Calls, LeaveGroup(c) \/ SetGroup(c) \/ SetOption(c) \/ Forget(c) \/ Seen(c)
      PROVE  Failures'
  BY <1>1 DEF LeaveGroup, SetGroup, SetOption, Forget, Seen, Failures
<1>2. ASSUME NEW c \in Calls, SaveOpen(c) \/ SaveWrite(c) \/ SaveRename(c) \/ ApplySettings(c)
      PROVE  Failures'
  BY <1>2 DEF SaveOpen, SaveWrite, SaveRename, ApplySettings, Mends, Failures
<1>3. ASSUME NEW c \in Calls,
             ReloadFails(c) \/ StopGeneration(c) \/ ReadSettings(c) \/ LoadSettings(c) \/ Build(c)
      PROVE  Failures'
  BY <1>3 DEF ReloadFails, StopGeneration, ReadSettings, LoadSettings, Build, Mends, Failures
<1>4. ASSUME NEW c \in Calls, CallFails(c)
      PROVE  Failures'
  <2>1. Undone(c) \subseteq {"save", "group", "option"}
    BY DEF Undone
  <2> QED
    BY <1>4, <2>1 DEF CallFails, Failures
<1>5. ASSUME NEW c \in Calls, StartProgram(c) \/ \E o \in load.ops : Begin(c, o)
      PROVE  Failures'
  BY <1>5 DEF StartProgram, Begin, Failures
<1>6. ASSUME NEW g \in DOMAIN gen, (Run(g) \/ ClosedByServer(g)) \/ Lost(g)
      PROVE  Failures'
  BY <1>6 DEF Run, Dial, Connected, SessionEnds, Fails, ShowsError, Refused, ShowsRefusal, SignedOut,
              Waited, ClosedByServer, Client, Lost, Failures
<1>7. CASE Crash \/ Turn \/ (\E t \in Tokens : Revoke(t)) \/ UNCHANGED vars
  BY <1>7 DEF Crash, Turn, Revoke, vars, Failures
<1> QED
  BY <1>1, <1>2, <1>3, <1>4, <1>5, <1>6, <1>7, NextCases

LEMMA BaseIs == Base /\ Alive /\ Failures => Typed /\ Placed
<1> SUFFICES ASSUME Base, Alive, Failures PROVE Typed /\ Placed
  OBVIOUS
<1>1. \A c \in Busy :
        LET o == call[c].op.op
            at == call[c].at
        IN /\ IF Command(c) THEN Own(c) ELSE mem # None
           /\ Own(c) => Linux /\ o # "start"
           /\ at \in {"stopped", "read", "loaded"} => mem # None
           /\ at \in {"writing", "written"} => call[c].data # None
           /\ at = "left" => o \in {"join", "signin"}
           /\ at = "saved" => o = "pause"
           /\ at = "read" => Linux
           /\ o = "pause" => ~Linux
           /\ o = "start" => at \in {"restart", "stopped", "read", "loaded"} /\ DOMAIN gen = {}
           /\ o = "seen" => at \in {"begun", "changed", "writing", "written"} /\ DOMAIN gen # {}
  <2> SUFFICES ASSUME NEW c \in Calls, call[c] # None
               PROVE  LET o == call[c].op.op
                          at == call[c].at
                      IN /\ IF Command(c) THEN Own(c) ELSE mem # None
                         /\ Own(c) => Linux /\ o # "start"
                         /\ at \in {"stopped", "read", "loaded"} => mem # None
                         /\ at \in {"writing", "written"} => call[c].data # None
                         /\ at = "left" => o \in {"join", "signin"}
                         /\ at = "saved" => o = "pause"
                         /\ at = "read" => Linux
                         /\ o = "pause" => ~Linux
                         /\ o = "start" => at \in {"restart", "stopped", "read", "loaded"} /\ DOMAIN gen = {}
                         /\ o = "seen" => at \in {"begun", "changed", "writing", "written"} /\ DOMAIN gen # {}
    BY DEF Busy, Idle
  <2>1. Fits(call[c], mem, load)
    BY StepFacts
  <2>2. call[c].op.op = "start" => DOMAIN gen = {}
    BY DEF Alive
  <2>3. call[c].op.op = "seen" => DOMAIN gen # {}
    BY DEF Alive
  <2> QED
    BY <2>1, <2>2, <2>3, BusyFacts DEF Fits, Linux, Base
<1>2. DOMAIN gen \subseteq 1..MaxGen /\ stop \in DOMAIN gen \cup {0}
  BY DesktopAssumption DEF Base, Generations
<1>3. Typed
  BY <1>2 DEF Base, Threads, Files, Generations, Shown, Outside, Failures, Typed, Idle
<1>4. Placed
  BY <1>1 DEF Base, Generations, Placed
<1> QED
  BY <1>3, <1>4

LEMMA AlwaysPlaced == Spec => [](Base /\ Alive /\ Failures)
<1>1. Init => Base /\ Alive /\ Failures
  BY InitBase DEF Init, Alive, Idle, Failures
<1>2. Base /\ Alive /\ Failures /\ [Next]_vars => (Base /\ Alive /\ Failures)'
  BY StepBase, StepAlive, StepFailures
<1> QED
  BY <1>1, <1>2, PTL DEF Spec

-----------------------------------------------------------------------------
(* One writer at a time.                                                   *)

Writers == OneWriter /\ Apart

LEMMA SavingMeans ==
  ASSUME NEW c \in Calls
  PROVE  /\ Saving(c) <=> call[c] # None /\ call[c].at \in {"writing", "written"}
         /\ Saving(c)' <=> call'[c] # None /\ call'[c].at \in {"writing", "written"}
         /\ \A s : (At(c, s) <=> call[c] # None /\ call[c].at = s)
                   /\ (At(c, s)' <=> call'[c] # None /\ call'[c].at = s)
         /\ \A S : (Does(c, S) <=> call[c] # None /\ call[c].op.op \in S)
                   /\ (Does(c, S)' <=> call'[c] # None /\ call'[c].op.op \in S)
         /\ c \in Limited <=> /\ call[c] # None /\ call[c].op.op # "start"
                              /\ Linux \/ call[c].op.op # "seen"
         /\ c \in Limited' <=> /\ call'[c] # None /\ call'[c].op.op # "start"
                               /\ Linux' \/ call'[c].op.op # "seen"
         /\ Command(c) <=> Linux /\ (call[c] # None => call[c].op.op \notin {"seen", "start"})
         /\ Command(c)' <=> Linux' /\ (call'[c] # None => call'[c].op.op \notin {"seen", "start"})
BY DEF Saving, At, Does, Limited, Command, Busy, Idle

\* No thread begins, and none goes on with a save, reads the file, or gets
\* settings of its own.
Quiet ==
  \A o \in Calls : call'[o] # None =>
    /\ call[o] # None /\ call'[o].op = call[o].op
    /\ call'[o].cfg # None => call[o].cfg # None
    /\ call'[o].at \in {"writing", "written", "read"} =>
         call'[o].at = call[o].at /\ call'[o].data = call[o].data /\ call'[o].moved = call[o].moved

LEMMA UsersCalm ==
  ASSUME Writers, load'.platform = load.platform,
         \A o \in Calls : call'[o] # None => /\ call[o] # None /\ call'[o].op = call[o].op
                                             /\ call'[o].cfg # None => call[o].cfg # None
  PROVE  Linux' => /\ \A c, o \in Limited' : c = o
                   /\ \A c \in Calls : Does(c, {"seen"})' => ~Own(c)'
<1> SUFFICES ASSUME Linux'
             PROVE  /\ \A c, o \in Limited' : c = o
                    /\ \A c \in Calls : Does(c, {"seen"})' => ~Own(c)'
  OBVIOUS
<1>1. Linux
  BY DEF Linux
<1>2. Limited' \subseteq Calls
  BY DEF Limited, Busy
<1>3. \A c \in Limited' : c \in Limited
  BY <1>1, <1>2, SavingMeans
<1>4. \A c \in Calls : Does(c, {"seen"})' => Does(c, {"seen"}) /\ (Own(c)' => Own(c))
  BY SavingMeans DEF Own
<1> QED
  BY <1>1, <1>3, <1>4 DEF Writers, OneWriter

LEMMA QuietWriters ==
  ASSUME Writers, Quiet, UNCHANGED disk, load'.platform = load.platform,
         load'.atOnce = load.atOnce, load'.ops \subseteq load.ops
  PROVE  Writers'
<1>1. Linux' => /\ \A c, o \in Limited' : c = o
                /\ \A c \in Calls : Does(c, {"seen"})' => ~Own(c)'
  BY UsersCalm DEF Quiet
<1>2. \A c \in Calls : Saving(c)' => Saving(c) /\ call'[c].at = call[c].at
                         /\ call'[c].data = call[c].data /\ call'[c].moved = call[c].moved
  BY SavingMeans DEF Quiet
<1>3. \A c, o \in Calls : Saving(c)' /\ Saving(o)' => c = o
  BY <1>2 DEF Writers, OneWriter
<1>4. \A c \in Calls : At(c, "writing")' => ~call'[c].moved
  BY <1>2, SavingMeans DEF Writers, OneWriter
<1>5. \A c \in Calls : At(c, "written")' => tmp' = call'[c].data
  BY <1>2, SavingMeans DEF Writers, OneWriter, disk
<1>6. \A c \in Calls : At(c, "read")' => call'[c].data # None
  BY SavingMeans DEF Writers, OneWriter, Quiet
<1>7. Apart' /\ file' # Part
  BY DEF Writers, OneWriter, Apart, disk
<1> QED
  BY <1>1, <1>3, <1>4, <1>5, <1>6, <1>7 DEF Writers, OneWriter

LEMMA BecomesMost ==
  ASSUME Threads, NEW c \in Calls, NEW s, NEW f, NEW d, NEW b, Becomes(c, s, f, d, b)
  PROVE  /\ \A o \in Calls : o # c => call'[o] = call[o]
         /\ call'[c].op = call[c].op /\ call'[c].at = s /\ call'[c].cfg = f /\ call'[c].data = d
<1> DEFINE x == [op |-> call[c].op, at |-> s, cfg |-> f, data |-> d, moved |-> b]
<1>1. x.op = call[c].op /\ x.at = s /\ x.cfg = f /\ x.data = d
  OBVIOUS
<1>2. call' = [call EXCEPT ![c] = x] /\ DOMAIN call = Calls
  BY DEF Becomes, Threads
<1> HIDE DEF x
<1>3. call'[c] = x /\ \A o \in Calls : o # c => call'[o] = call[o]
  BY <1>2
<1> QED
  BY <1>1, <1>3

LEMMA BecomesQuiet ==
  ASSUME Threads, NEW c \in Calls, call[c] # None, NEW s, NEW f, NEW d, NEW b, Becomes(c, s, f, d, b),
         s \notin {"writing", "written", "read"}, f # None => call[c].cfg # None
  PROVE  Quiet
<1>1. \A o \in Calls : o # c => call'[o] = call[o]
  BY BecomesMost
<1>2. call'[c].op = call[c].op /\ call'[c].at = s /\ call'[c].cfg = f
  BY BecomesMost
<1> QED
  BY <1>1, <1>2 DEF Quiet

LEMMA BecomesFresh ==
  ASSUME Threads, NEW c \in Calls, NEW s, NEW d, Becomes(c, s, call[c].cfg, d, FALSE)
  PROVE  /\ ~call'[c].moved /\ call'[c].op = call[c].op /\ call'[c].at = s /\ call'[c].cfg = call[c].cfg
         /\ \A o \in Calls : o # c => call'[o] = call[o]
<1> DEFINE x == [op |-> call[c].op, at |-> s, cfg |-> call[c].cfg, data |-> d, moved |-> FALSE]
<1>1. ~x.moved /\ x.op = call[c].op /\ x.at = s /\ x.cfg = call[c].cfg
  OBVIOUS
<1>2. call' = [call EXCEPT ![c] = x] /\ DOMAIN call = Calls
  BY DEF Becomes, Threads
<1> HIDE DEF x
<1>3. call'[c] = x /\ \A o \in Calls : o # c => call'[o] = call[o]
  BY <1>2
<1> QED
  BY <1>1, <1>3

LEMMA EndsQuiet ==
  ASSUME Threads, NEW c \in Calls, Ends(c)
  PROVE  Quiet
BY EndsCalm DEF Quiet

LEMMA SaveAlone ==
  ASSUME Base, Writers, NEW c \in Calls, SaveOpen(c)
  PROVE  \A o \in Calls : ~Saving(o)
<1>1. call[c] # None /\ call[c].at = "changed"
  BY BusyFacts DEF SaveOpen, Base
<1>2. SUFFICES ASSUME NEW o \in Calls, Saving(o), o # c PROVE FALSE
  BY <1>1, SavingMeans
<1>3. CASE Linux
  <2>1. \A u \in {c, o} : u \in Limited
    BY <1>1, <1>2, <1>3, StepFacts, SavingMeans DEF Writers, OneWriter, Fits
  <2> QED
    BY <1>2, <1>3, <2>1 DEF Writers, OneWriter
<1>4. CASE ~Linux
  <2>1. \A u \in Calls : call[u] # None => ~Own(u)
    BY <1>4, StepFacts DEF Fits, Linux, Own
  <2> QED
    BY <1>1, <1>2, <2>1, SavingMeans DEF SaveOpen
<1> QED
  BY <1>3, <1>4

LEMMA SaveOpenWriters ==
  ASSUME Base, Writers, NEW c \in Calls, SaveOpen(c)
  PROVE  Writers'
<1>1. /\ call[c] # None /\ call[c].at = "changed"
      /\ Becomes(c, "writing", call[c].cfg, Mine(c), FALSE) /\ UNCHANGED <<file, load>>
  BY BusyFacts, GoesBecomes DEF SaveOpen, Base
<1>2. /\ \A o \in Calls : o # c => call'[o] = call[o]
      /\ call'[c].op = call[c].op /\ call'[c].at = "writing" /\ ~call'[c].moved
      /\ call'[c].cfg = call[c].cfg
  <2>1. Threads
    BY DEF Base
  <2> QED
    BY <1>1, <2>1, BecomesFresh
<1>3. ~call'[c].moved
  BY <1>2
<1>4. \A o \in Calls : Saving(o)' => o = c
  BY <1>2, SaveAlone, SavingMeans
<1>5. Linux' => /\ \A u, o \in Limited' : u = o
                /\ \A u \in Calls : Does(u, {"seen"})' => ~Own(u)'
  BY <1>1, <1>2, UsersCalm
<1>6. \A u \in Calls : At(u, "writing")' => ~call'[u].moved
  BY <1>3, <1>4, SavingMeans
<1>7. \A u \in Calls : ~At(u, "written")'
  BY <1>2, <1>4, SavingMeans
<1>8. Apart' /\ file' # Part
  BY <1>1 DEF Writers, OneWriter, Apart, Linux
<1>9. \A u \in Calls : At(u, "read")' => call'[u].data # None
  BY <1>2, SavingMeans DEF Writers, OneWriter
<1> QED
  BY <1>4, <1>5, <1>6, <1>7, <1>8, <1>9 DEF Writers, OneWriter

LEMMA SaveWriteFacts ==
  ASSUME Base, Writers, NEW c \in Calls, SaveWrite(c)
  PROVE  /\ call[c] # None /\ call[c].at = "writing" /\ Saving(c)
         /\ tmp' = call[c].data /\ UNCHANGED <<file, mem, running, outside, failed, load>>
         /\ Becomes(c, "written", call[c].cfg, call[c].data, call[c].moved)
         /\ \A o \in Calls : o # c => ~Saving(o)
<1>1. call[c] # None /\ call[c].at = "writing" /\ Saving(c)
  BY SavingMeans DEF SaveWrite
<1>2. ~call[c].moved
  BY <1>1, SavingMeans DEF Writers, OneWriter
<1>3. tmp' = call[c].data /\ UNCHANGED file
  BY <1>2 DEF SaveWrite
<1>4. UNCHANGED <<mem, running, outside, failed, load>>
  BY DEF SaveWrite
<1>5. Becomes(c, "written", call[c].cfg, call[c].data, call[c].moved)
  BY <1>1, GoesBecomes DEF SaveWrite, Base
<1>6. \A o \in Calls : o # c => ~Saving(o)
  BY <1>1 DEF Writers, OneWriter
<1> QED
  BY <1>1, <1>3, <1>4, <1>5, <1>6

LEMMA SaveWriteWriters ==
  ASSUME Base, Writers, NEW c \in Calls, SaveWrite(c)
  PROVE  Writers'
<1>1. /\ call[c] # None /\ tmp' = call[c].data /\ UNCHANGED <<file, load>>
      /\ Becomes(c, "written", call[c].cfg, call[c].data, call[c].moved)
      /\ \A o \in Calls : o # c => ~Saving(o)
  BY SaveWriteFacts
<1>2. /\ \A o \in Calls : o # c => call'[o] = call[o]
      /\ call'[c].op = call[c].op /\ call'[c].at = "written" /\ call'[c].data = call[c].data
      /\ call'[c].cfg = call[c].cfg
  BY <1>1, BecomesMost DEF Base
<1>3. \A o \in Calls : Saving(o)' => o = c
  BY <1>1, <1>2, SavingMeans
<1>4. Linux' => /\ \A u, o \in Limited' : u = o
                /\ \A u \in Calls : Does(u, {"seen"})' => ~Own(u)'
  BY <1>1, <1>2, UsersCalm
<1>5. \A u \in Calls : ~At(u, "writing")'
  BY <1>2, <1>3, SavingMeans
<1>6. \A u \in Calls : At(u, "written")' => tmp' = call'[u].data
  BY <1>1, <1>2, <1>3, SavingMeans
<1>7. Apart' /\ file' # Part
  BY <1>1 DEF Writers, OneWriter, Apart, Linux
<1>8. \A u \in Calls : At(u, "read")' => call'[u].data # None
  BY <1>2, SavingMeans DEF Writers, OneWriter
<1> QED
  BY <1>3, <1>4, <1>5, <1>6, <1>7, <1>8 DEF Writers, OneWriter

\* The rename puts what c has marshalled in the file's place, and touches no
\* other thread.
LEMMA SaveRenameFacts ==
  ASSUME Base, Writers, NEW c \in Calls, SaveRename(c)
  PROVE  /\ call[c] # None /\ call[c].at = "written" /\ call[c].data \in Config
         /\ file' = call[c].data /\ UNCHANGED <<mem, running, outside, load>>
         /\ call'[c] = Renamed(c, c) /\ Mends
         /\ \A o \in Calls : o # c => call'[o] = call[o] /\ ~Saving(o)
<1>1. call[c] # None /\ call[c].at = "written" /\ Saving(c) /\ At(c, "written")
  BY SavingMeans DEF SaveRename
<1>2. call[c].data \in Config
  BY <1>1, StepFacts DEF Fits
<1>3. tmp = call[c].data
  BY <1>1 DEF Writers, OneWriter
<1>4. file' = tmp /\ call' = [o \in Calls |-> Renamed(c, o)]
  BY <1>2, <1>3, NoneFacts DEF SaveRename
<1>5. \A o \in Calls : o # c => ~Saving(o)
  BY <1>1 DEF Writers, OneWriter
<1>6. \A o \in Calls : o # c => Renamed(c, o) = call[o]
  BY <1>5 DEF Renamed, Saving
<1>7. UNCHANGED <<mem, running, outside, load>> /\ Mends
  BY DEF SaveRename
<1> QED
  BY <1>1, <1>2, <1>3, <1>4, <1>5, <1>6, <1>7

LEMMA SaveRenameWriters ==
  ASSUME Base, Writers, NEW c \in Calls, SaveRename(c)
  PROVE  Writers'
<1>1. /\ call[c] # None /\ call[c].at = "written" /\ call[c].data \in Config
      /\ file' = call[c].data /\ UNCHANGED load /\ call'[c] = Renamed(c, c)
      /\ \A o \in Calls : o # c => call'[o] = call[o] /\ ~Saving(o)
  BY SaveRenameFacts
<1>2. call'[c] # None => call'[c].op = call[c].op /\ call'[c].at \in {"saved", "restart"}
                         /\ call'[c].cfg = call[c].cfg
  BY <1>1, RenamedFacts
<1>3. \A o \in Calls : ~Saving(o)'
  BY <1>1, <1>2, SavingMeans
<1>4. Linux' => /\ \A u, o \in Limited' : u = o
                /\ \A u \in Calls : Does(u, {"seen"})' => ~Own(u)'
  BY <1>1, <1>2, UsersCalm
<1>5. Apart' /\ file' # Part
  BY <1>1, NoneFacts DEF Writers, Apart, Linux
<1>6. \A u \in Calls : At(u, "read")' => call'[u].data # None
  BY <1>1, <1>2, SavingMeans DEF Writers, OneWriter
<1> QED
  BY <1>3, <1>4, <1>5, <1>6, SavingMeans DEF Writers, OneWriter

LEMMA BeginWriters ==
  ASSUME Base, Writers, NEW c \in Calls, NEW o \in load.ops, Begin(c, o)
  PROVE  Writers'
<1>1. /\ \A u \in Calls : u # c => call'[u] = call[u]
      /\ call[c] = None /\ call'[c] # None /\ call'[c].op = o /\ call'[c].at = "begun"
      /\ UNCHANGED disk /\ load'.platform = load.platform /\ load'.atOnce = load.atOnce
      /\ load'.ops \subseteq load.ops
  BY BeginFacts
<1>2. \A u \in Calls : (Saving(u)' => Saving(u) /\ u # c /\ call'[u] = call[u])
  BY <1>1, SavingMeans
<1>3. ASSUME Linux' PROVE /\ \A u, v \in Limited' : u = v
                          /\ \A u \in Calls : Does(u, {"seen"})' => ~Own(u)'
  <2>1. Linux /\ Apart
    BY <1>1, <1>3 DEF Linux, Writers
  <2>2. Limited = {}
    BY <2>1, BeginFacts, NoOther DEF Apart
  <2>3. Limited' \subseteq Calls
    BY DEF Limited, Busy
  <2>4. \A u \in Limited' : u = c
    BY <1>1, <2>1, <2>2, <2>3, SavingMeans
  <2>5. \A u \in Calls : Does(u, {"seen"})' => u = c /\ o.op = "seen"
    BY <1>1, <1>3, <2>4, SavingMeans
  <2>6. o.op = "seen" => call'[c].cfg = None
    BY BeginFacts
  <2> QED
    BY <2>4, <2>5, <2>6 DEF Own
<1>4. \A u, v \in Calls : Saving(u)' /\ Saving(v)' => u = v
  BY <1>2 DEF Writers, OneWriter
<1>5. \A u \in Calls : (At(u, "writing")' => ~call'[u].moved) /\ (At(u, "written")' => tmp' = call'[u].data)
  BY <1>1, <1>2, SavingMeans DEF Writers, OneWriter, disk
<1>6. Apart' /\ file' # Part
  BY <1>1 DEF Writers, OneWriter, Apart, Linux, disk
<1>7. \A u \in Calls : At(u, "read")' => call'[u].data # None
  BY <1>1, SavingMeans DEF Writers, OneWriter
<1> QED
  BY <1>3, <1>4, <1>5, <1>6, <1>7 DEF Writers, OneWriter

LEMMA StartProgramFacts ==
  ASSUME Base, NEW c \in Calls, StartProgram(c)
  PROVE  /\ call[c] = None /\ mem = None /\ mem' = file /\ UNCHANGED <<disk, running, outside, failed, load>>
         /\ \A o \in Calls : o # c => call'[o] = call[o]
         /\ call'[c] # None /\ call'[c].op.op = "start" /\ call'[c].at = "restart"
         /\ call'[c].cfg = None
<1> DEFINE x == [op |-> Start, at |-> "restart", cfg |-> None, data |-> None, moved |-> FALSE]
<1>1. /\ mem = None /\ call[c] = None /\ mem' = file /\ UNCHANGED <<disk, running, outside, failed, load>>
      /\ call' = [call EXCEPT ![c] = x]
  BY DEF StartProgram, Idle
<1>2. x \in Call /\ x.op.op = "start" /\ x.at = "restart" /\ x.cfg = None
  BY DEF Call, Start, Stages
<1> HIDE DEF x
<1> QED
  BY <1>1, <1>2, NoneFacts DEF Base, Threads

LEMMA StartProgramWriters ==
  ASSUME Base, Writers, NEW c \in Calls, StartProgram(c)
  PROVE  Writers'
<1>1. /\ \A o \in Calls : o # c => call'[o] = call[o]
      /\ call[c] = None /\ call'[c].op.op = "start" /\ call'[c].at = "restart"
      /\ UNCHANGED <<disk, load>>
  BY StartProgramFacts
<1>2. \A u \in Calls : (Saving(u)' => Saving(u) /\ u # c /\ call'[u] = call[u])
  BY <1>1, SavingMeans
<1>3. Limited' \subseteq Calls
  BY DEF Limited, Busy
<1>4. \A u \in Limited' : u \in Limited
  BY <1>1, <1>3, SavingMeans DEF Linux
<1>5. \A u \in Calls : Does(u, {"seen"})' => Does(u, {"seen"}) /\ (Own(u)' => Own(u))
  BY <1>1, SavingMeans DEF Own
<1>6. \A u, v \in Calls : Saving(u)' /\ Saving(v)' => u = v
  BY <1>2 DEF Writers, OneWriter
<1>7. \A u \in Calls : (At(u, "writing")' => ~call'[u].moved) /\ (At(u, "written")' => tmp' = call'[u].data)
  BY <1>1, <1>2, SavingMeans DEF Writers, OneWriter, disk
<1>8. Apart' /\ file' # Part /\ Linux' = Linux
  BY <1>1 DEF Writers, OneWriter, Apart, Linux, disk
<1>9. \A u \in Calls : At(u, "read")' => call'[u].data # None
  BY <1>1, SavingMeans DEF Writers, OneWriter
<1> QED
  BY <1>4, <1>5, <1>6, <1>7, <1>8, <1>9 DEF Writers, OneWriter

LEMMA OperationWriters ==
  ASSUME Base, Writers, NEW c \in Calls,
         LeaveGroup(c) \/ SetGroup(c) \/ SetOption(c) \/ Forget(c) \/ Seen(c)
  PROVE  Writers'
<1>1. call[c] # None /\ UNCHANGED <<disk, load>>
  BY OperationFacts
<1>2. Quiet
  <2>1. CASE Ends(c)
    BY <2>1, EndsQuiet DEF Base
  <2>2. CASE ~Ends(c)
    <3>1. PICK f \in Config, s \in {"left", "changed"} : Set(c, f, s)
      BY <2>2, OperationFacts
    <3>2. Becomes(c, s, IF Own(c) THEN f ELSE call[c].cfg, call[c].data, call[c].moved)
      BY <1>1, <3>1, SetMoves DEF Base
    <3>3. (IF Own(c) THEN f ELSE call[c].cfg) # None => call[c].cfg # None
      BY DEF Own
    <3> QED
      BY <1>1, <3>2, <3>3, BecomesQuiet DEF Base
  <2> QED
    BY <2>1, <2>2
<1> QED
  BY <1>1, <1>2, QuietWriters

\* The steps of a restart, without what they do to the generations.
LEMMA StopGenerationFacts ==
  ASSUME Base, NEW c \in Calls, StopGeneration(c)
  PROVE  /\ call[c] # None /\ call[c].at = "restart" /\ UNCHANGED <<disk, mem, failed, load>>
         /\ stop' = 0 /\ Becomes(c, "stopped", call[c].cfg, call[c].data, call[c].moved)
BY BusyFacts, GoesBecomes DEF StopGeneration, Base

\* Nothing is being remembered while the daemon loads the settings.
LEMMA LoadAlone ==
  ASSUME Base, Alive, Writers, NEW c \in Calls, call[c] # None, Linux, call[c].at \in {"restart", "stopped", "read"}
  PROVE  \A o \in Calls : ~Does(o, {"seen"})
<1> SUFFICES ASSUME NEW o \in Calls, Does(o, {"seen"}) PROVE FALSE
  OBVIOUS
<1>1. call[o] # None /\ call[o].op.op = "seen" /\ o \in Limited
  BY SavingMeans
<1>2. call[c].op.op # "seen"
  BY StepFacts DEF Fits
<1>3. CASE call[c].op.op = "start"
  BY <1>1, <1>3 DEF Alive
<1>4. CASE call[c].op.op # "start"
  <2>1. c \in Limited
    BY <1>4, SavingMeans
  <2> QED
    BY <1>1, <1>2, <2>1 DEF Writers, OneWriter
<1> QED
  BY <1>3, <1>4

LEMMA LoadSettingsMoves ==
  ASSUME Base, Alive, Writers, NEW c \in Calls, LoadSettings(c)
  PROVE  /\ call[c] # None /\ call[c].at = "read" /\ Linux /\ UNCHANGED <<disk, gen, stop, load>>
         /\ call[c].data # None /\ mem' = call[c].data /\ Mends
         /\ \A o \in Calls : o # c => call'[o] = call[o]
         /\ call'[c] # None /\ call'[c].op = call[c].op /\ call'[c].at = "loaded" /\ call'[c].cfg = call[c].cfg
<1>1. /\ call[c] # None /\ call[c].at = "read" /\ Linux
      /\ UNCHANGED <<disk, gen, stop, load>> /\ Mends /\ mem \in Config
      /\ mem' = IF call[c].data = None THEN mem ELSE call[c].data
      /\ call' = [o \in Calls |-> Loaded(c, o)]
  BY LoadSettingsFacts
<1>2. call[c].data # None
  BY <1>1, SavingMeans DEF Writers, OneWriter
<1>3. \A o \in Calls : call'[o] = Loaded(c, o)
  BY <1>1
<1>4. \A o \in Calls : o # c => call'[o] = call[o]
  BY <1>1, <1>3, LoadAlone DEF Loaded
<1>5. call'[c] # None /\ call'[c].op = call[c].op /\ call'[c].at = "loaded" /\ call'[c].cfg = call[c].cfg
  BY <1>1, <1>3, LoadedFacts
<1> QED
  BY <1>1, <1>2, <1>4, <1>5

LEMMA ReadSettingsWriters ==
  ASSUME Base, Writers, NEW c \in Calls, ReadSettings(c)
  PROVE  Writers'
<1>1. /\ call[c] # None /\ call[c].at = "stopped" /\ UNCHANGED <<disk, load>>
      /\ Becomes(c, "read", call[c].cfg, IF file = Part THEN None ELSE file, call[c].moved)
  BY ReadSettingsFacts
<1>2. file # Part /\ file \in Config /\ file # None
  BY NoneFacts DEF Writers, OneWriter, Base, Files
<1>3. /\ \A o \in Calls : o # c => call'[o] = call[o]
      /\ call'[c].op = call[c].op /\ call'[c].at = "read" /\ call'[c].data = file
      /\ call'[c].cfg = call[c].cfg
  BY <1>1, <1>2, BecomesMost DEF Base
<1>4. \A u \in Calls : Saving(u)' => Saving(u) /\ u # c /\ call'[u] = call[u]
  BY <1>3, SavingMeans
<1>5. Linux' => /\ \A u, o \in Limited' : u = o
                /\ \A u \in Calls : Does(u, {"seen"})' => ~Own(u)'
  BY <1>1, <1>3, UsersCalm
<1>6. \A u, v \in Calls : Saving(u)' /\ Saving(v)' => u = v
  BY <1>4 DEF Writers, OneWriter
<1>7. \A u \in Calls : (At(u, "writing")' => ~call'[u].moved) /\ (At(u, "written")' => tmp' = call'[u].data)
  BY <1>1, <1>4, SavingMeans DEF Writers, OneWriter, disk
<1>8. \A u \in Calls : At(u, "read")' => call'[u].data # None
  BY <1>2, <1>3, SavingMeans DEF Writers, OneWriter
<1>9. Apart' /\ file' # Part
  BY <1>1, <1>2 DEF Writers, Apart, disk
<1> QED
  BY <1>5, <1>6, <1>7, <1>8, <1>9 DEF Writers, OneWriter

LEMMA RestartWriters ==
  ASSUME Base, Alive, Writers, NEW c \in Calls,
         \/ ApplySettings(c) \/ ReloadFails(c) \/ StopGeneration(c) \/ LoadSettings(c) \/ Build(c)
         \/ CallFails(c)
  PROVE  Writers'
<1>1. CASE ApplySettings(c)
  BY <1>1, EndsQuiet, QuietWriters DEF ApplySettings, Base
<1>2. CASE ReloadFails(c)
  BY <1>2, EndsQuiet, QuietWriters DEF ReloadFails, Base
<1>3. CASE StopGeneration(c)
  <2>1. Quiet
    BY <1>3, StopGenerationFacts, BecomesQuiet DEF Base
  <2> QED
    BY <1>3, <2>1, StopGenerationFacts, QuietWriters
<1>4. CASE LoadSettings(c)
  <2>1. Quiet
    BY <1>4, LoadSettingsMoves DEF Quiet
  <2> QED
    BY <1>4, <2>1, LoadSettingsMoves, QuietWriters
<1>5. CASE Build(c)
  BY <1>5, BuildFacts, EndsQuiet, QuietWriters DEF Base
<1>6. CASE CallFails(c)
  <2>1. /\ Ends(c) /\ UNCHANGED disk /\ load'.platform = load.platform
        /\ load'.atOnce = load.atOnce /\ load'.ops = load.ops
    BY <1>6, SpendKeeps DEF CallFails, Base, Outside
  <2> QED
    BY <2>1, EndsQuiet, QuietWriters DEF Base
<1> QED
  BY <1>1, <1>2, <1>3, <1>4, <1>5, <1>6

\* A step of a client changes nothing but its stage.
LEMMA ClientFacts ==
  ASSUME Base, NEW g \in DOMAIN gen, (Run(g) \/ ClosedByServer(g)) \/ Lost(g)
  PROVE  /\ UNCHANGED <<disk, mem, call, stop, failed>> /\ load'.platform = load.platform
         /\ load'.atOnce = load.atOnce /\ load'.ops = load.ops
         /\ DOMAIN gen' = DOMAIN gen
         /\ \A h \in DOMAIN gen : gen'[h].group = gen[h].group /\ gen'[h].opt = gen[h].opt
<1>1. /\ \E w \in ClientStages : gen' = [gen EXCEPT ![g].client = w]
      /\ UNCHANGED <<disk, mem, call, stop, failed>> /\ load'.platform = load.platform
      /\ load'.atOnce = load.atOnce /\ load'.ops = load.ops
  <2>1. CASE Run(g) \/ ClosedByServer(g)
    BY <2>1, RunFacts
  <2>2. CASE Lost(g)
    BY <2>2, LostFacts DEF ClientStages
  <2> QED
    BY <2>1, <2>2
<1>2. PICK w \in ClientStages : gen' = [gen EXCEPT ![g].client = w]
  BY <1>1
<1>3. gen[g] \in Generation
  BY DEF Base, Generations
<1> DEFINE x == [gen[g] EXCEPT !.client = w]
<1>4. x.group = gen[g].group /\ x.opt = gen[g].opt
  BY <1>3 DEF Generation
<1>5. gen' = [gen EXCEPT ![g] = x]
  BY <1>2
<1> HIDE DEF x
<1>6. \A h \in DOMAIN gen : gen'[h].group = gen[h].group /\ gen'[h].opt = gen[h].opt
  BY <1>4, <1>5
<1>7. DOMAIN gen' = DOMAIN gen
  BY <1>5
<1> QED
  BY <1>1, <1>6, <1>7

LEMMA CrashFacts ==
  ASSUME Base, Crash
  PROVE  /\ mem' = None /\ UNCHANGED disk /\ load'.platform = load.platform
         /\ load'.atOnce = load.atOnce /\ load'.ops = load.ops
         /\ \A c \in Calls : call'[c] # None => call'[c] = call[c] /\ call[c] # None
BY SpendKeeps DEF Crash, Busy, Idle, Base, Outside

LEMMA StillFacts ==
  ASSUME Base, (Turn \/ \E t \in Tokens : Revoke(t)) \/ UNCHANGED vars
  PROVE  /\ UNCHANGED <<disk, mem, call, gen, stop, failed>> /\ load'.platform = load.platform
         /\ load'.atOnce = load.atOnce /\ load'.ops = load.ops
BY TurnFacts DEF running, disk, vars

LEMMA StepWriters == Base /\ Alive /\ Writers /\ [Next]_vars => Writers'
<1> SUFFICES ASSUME Base, Alive, Writers, [Next]_vars PROVE Writers'
  OBVIOUS
<1>1. ASSUME NEW c \in Calls, SaveOpen(c) \/ SaveWrite(c) \/ SaveRename(c) PROVE Writers'
  BY <1>1, SaveOpenWriters, SaveWriteWriters, SaveRenameWriters
<1>2. ASSUME NEW c \in Calls, StartProgram(c) \/ \E o \in load.ops : Begin(c, o) PROVE Writers'
  BY <1>2, StartProgramWriters, BeginWriters
<1>3. ASSUME NEW g \in DOMAIN gen, (Run(g) \/ ClosedByServer(g)) \/ Lost(g) PROVE Writers'
  <2>1. Quiet
    BY <1>3, ClientFacts DEF Quiet
  <2> QED
    BY <1>3, <2>1, ClientFacts, QuietWriters
<1>4. CASE Crash
  <2>1. Quiet
    BY <1>4, CrashFacts DEF Quiet
  <2> QED
    BY <1>4, <2>1, CrashFacts, QuietWriters
<1>5. CASE (Turn \/ \E t \in Tokens : Revoke(t)) \/ UNCHANGED vars
  <2>1. Quiet
    BY <1>5, StillFacts DEF Quiet
  <2> QED
    BY <1>5, <2>1, StillFacts, QuietWriters
<1> QED
  BY <1>1, <1>2, <1>3, <1>4, <1>5, OperationWriters, ReadSettingsWriters,
     RestartWriters, NextCases

LEMMA InitWriters == Init /\ Apart => Writers /\ OneCall
<1> SUFFICES ASSUME Init, Apart PROVE OneWriter /\ OneCall
  BY DEF Writers
<1>1. \A c \in Calls : call[c] = None
  BY DEF Init, Idle
<1>2. \A c \in Calls : ~Saving(c) /\ ~At(c, "writing") /\ ~At(c, "written") /\ ~At(c, "read")
                    /\ ~Does(c, {"seen"})
  BY <1>1, SavingMeans
<1>3. Limited = {}
  BY <1>1 DEF Limited, Busy, Idle
<1>4. file # Part
  <2>1. [group |-> None, opt |-> FALSE, known |-> {}] \in Config
    BY DEF Config, Groups
  <2> QED
    BY <2>1, NoneFacts DEF Init
<1>5. OneWriter
  BY <1>2, <1>3, <1>4 DEF OneWriter
<1> QED
  BY <1>5 DEF OneCall, Apart

-----------------------------------------------------------------------------
(* Whatever is out of step has a thread that brings it back.               *)

LEMMA WitnessMeans ==
  ASSUME NEW c \in Calls
  PROVE  /\ Renews(c) <=> /\ call[c] # None
                          /\ \/ call[c].at \in {"restart", "stopped", "read", "loaded"}
                             \/ /\ ~Linux /\ call[c].op.op \in {"join", "signin", "leave", "settings"}
                                /\ call[c].at # "begun"
         /\ Renews(c)' <=> /\ call'[c] # None
                           /\ \/ call'[c].at \in {"restart", "stopped", "read", "loaded"}
                              \/ /\ ~Linux' /\ call'[c].op.op \in {"join", "signin", "leave", "settings"}
                                 /\ call'[c].at # "begun"
         /\ Applies(c) <=> Renews(c) \/ (call[c] # None /\ call[c].op.op = "pause" /\ call[c].at # "begun")
         /\ Applies(c)' <=> Renews(c)' \/ (call'[c] # None /\ call'[c].op.op = "pause" /\ call'[c].at # "begun")
BY DEF Renews, Applies, Restarting, At, Does, Busy, Idle

LEMMA GroupKept ==
  ASSUME Base, GroupOrSoon, stop' = stop, mem'.group = mem.group,
         "group" \in failed => "group" \in failed',
         \A h \in DOMAIN gen : gen'[h].group = gen[h].group,
         \A o \in Calls : Renews(o) => Renews(o)'
  PROVE  GroupOrSoon'
<1>1. CASE \E c \in Calls : Renews(c)
  BY <1>1 DEF GroupOrSoon
<1>2. CASE IF mem.group = None THEN stop = 0 ELSE stop # 0 /\ gen[stop].group = mem.group
  <2>1. stop # 0 => gen'[stop].group = gen[stop].group
    BY DEF Base, Generations
  <2> QED
    BY <1>2, <2>1 DEF GroupOrSoon
<1>3. CASE "group" \in failed
  BY <1>3 DEF GroupOrSoon
<1> QED
  BY <1>1, <1>2, <1>3 DEF GroupOrSoon

LEMMA OptionKept ==
  ASSUME Base, OptionOrSoon, stop' = stop, mem'.opt = mem.opt,
         "option" \in failed => "option" \in failed',
         \A h \in DOMAIN gen : gen'[h].opt = gen[h].opt,
         \A o \in Calls : Applies(o) => Applies(o)'
  PROVE  OptionOrSoon'
<1>1. CASE \E c \in Calls : Applies(c)
  BY <1>1, Zenon DEF OptionOrSoon
<1>2. CASE stop # 0 => gen[stop].opt = mem.opt
  <2>1. stop # 0 => gen'[stop].opt = gen[stop].opt
    BY DEF Base, Generations
  <2>2. stop' # 0 => gen'[stop'].opt = mem'.opt
    BY <1>2, <2>1, Zenon
  <2> QED
    BY <2>2, Zenon DEF OptionOrSoon
<1>3. CASE "option" \in failed
  BY <1>3, Zenon DEF OptionOrSoon
<1> QED
  BY <1>1, <1>2, <1>3, Zenon DEF OptionOrSoon

\* The thread o is about to restart.
Comes(o) == At(o, "restart") \/ At(o, "stopped")

\* The thread o is no nearer to the saved settings, and no further.
Saves(o) ==
  /\ ~Command(o) /\ (At(o, "left") \/ At(o, "changed")) => ~Command(o)' /\ (At(o, "left")' \/ At(o, "changed")')
  /\ Linux /\ (Comes(o) \/ At(o, "read")) => Comes(o)' \/ At(o, "read")'
  /\ Saving(o) /\ ~Command(o) <=> Saving(o)' /\ ~Command(o)'
  /\ Saving(o) /\ ~Command(o) => call'[o].data = call[o].data

\* It has read no other settings, and will still read those that are saved.
Reads(o) ==
  /\ At(o, "read")' => call'[o].data = file' \/ (At(o, "read") /\ call'[o].data = call[o].data)
  /\ Comes(o) => Comes(o)' \/ \A u \in Calls : At(u, "read")' => call'[u].data = file'

LEMMA SavedKept ==
  ASSUME SavedOrSoon, UNCHANGED <<mem, file>>, load'.platform = load.platform,
         "save" \in failed => "save" \in failed', \A o \in Calls : Saves(o)
  PROVE  SavedOrSoon'
<1>1. Linux' = Linux
  BY DEF Linux
<1>2. CASE "save" \in failed
  BY <1>2 DEF SavedOrSoon
<1>3. CASE Linux /\ \E c \in Calls : At(c, "restart") \/ At(c, "stopped") \/ At(c, "read")
  <2>1. PICK c \in Calls : Comes(c) \/ At(c, "read")
    BY <1>3 DEF Comes
  <2>2. Comes(c)' \/ At(c, "read")'
    BY <1>3, <2>1 DEF Saves
  <2> QED
    BY <1>1, <1>3, <2>2 DEF SavedOrSoon, Comes
<1>4. CASE \E c \in Calls : ~Command(c) /\ (At(c, "left") \/ At(c, "changed"))
  BY <1>4 DEF SavedOrSoon, Saves
<1>5. CASE /\ \A c \in Calls : Saving(c) /\ ~Command(c) => call[c].data = mem
           /\ mem = file \/ \E c \in Calls : Saving(c) /\ ~Command(c)
  <2>1. \A c \in Calls : Saving(c)' /\ ~Command(c)' => call'[c].data = mem'
    BY <1>5 DEF Saves
  <2>2. mem' = file' \/ \E c \in Calls : Saving(c)' /\ ~Command(c)'
    BY <1>5 DEF Saves
  <2> QED
    BY <2>1, <2>2 DEF SavedOrSoon
<1> QED
  BY <1>2, <1>3, <1>4, <1>5 DEF SavedOrSoon

LEMMA ReadKept ==
  ASSUME ReadLast, UNCHANGED file, \A o \in Calls : Reads(o)
  PROVE  ReadLast'
<1> SUFFICES ASSUME NEW c \in Calls, At(c, "read")', call'[c].data # file'
             PROVE  \E o \in Calls : Comes(o)'
  BY DEF ReadLast, Comes
<1>1. At(c, "read") /\ call[c].data # file
  BY DEF Reads
<1>2. PICK o \in Calls : Comes(o)
  BY <1>1 DEF ReadLast, Comes
<1>3. Comes(o)'
  BY <1>2 DEF Reads
<1> QED
  BY <1>3

\* A thread that does nothing stays as it is.
LEMMA SameKept ==
  ASSUME NEW o \in Calls, call'[o] = call[o], load'.platform = load.platform
  PROVE  /\ Renews(o) <=> Renews(o)'
         /\ Applies(o) <=> Applies(o)'
         /\ Saves(o) /\ Reads(o)
<1>1. Linux' <=> Linux
  BY DEF Linux
<1>2. Saves(o)
  BY <1>1, SavingMeans DEF Saves, Comes
<1>3. Reads(o)
  BY SavingMeans DEF Reads, Comes
<1> QED
  BY <1>1, <1>2, <1>3, WitnessMeans

\* One thread moves, and everything else stays.
LEMMA PendingKept ==
  ASSUME Base, Pending, NEW c \in Calls, \A o \in Calls : o # c => call'[o] = call[o],
         load'.platform = load.platform, UNCHANGED <<mem, file, gen, stop, failed>>,
         Renews(c) => Renews(c)', Applies(c) => Applies(c)', Saves(c), Reads(c)
  PROVE  Pending'
<1> SUFFICES ASSUME mem # None PROVE Pending'
  BY DEF Pending
<1>1. SavedOrSoon /\ ReadLast /\ GroupOrSoon /\ OptionOrSoon
  BY DEF Pending
<1>2. \A o \in Calls : (Renews(o) => Renews(o)') /\ (Applies(o) => Applies(o)') /\ Saves(o) /\ Reads(o)
  BY SameKept
<1>3. SavedOrSoon' /\ ReadLast'
  BY <1>1, <1>2, SavedKept, ReadKept
<1>4. GroupOrSoon'
  BY <1>1, <1>2, GroupKept
<1>5. OptionOrSoon'
  BY <1>1, <1>2, OptionKept
<1> QED
  BY <1>3, <1>4, <1>5 DEF Pending

\* The same when the file is another.
LEMMA RunningPending ==
  ASSUME Base, Pending, mem # None, NEW c \in Calls, \A o \in Calls : o # c => call'[o] = call[o],
         UNCHANGED <<mem, gen, stop, load>>, failed \ {"save"} \subseteq failed',
         Renews(c) => Renews(c)', Applies(c) => Applies(c)', SavedOrSoon', ReadLast'
  PROVE  Pending'
<1>1. GroupOrSoon /\ OptionOrSoon
  BY DEF Pending
<1>2. \A o \in Calls : (Renews(o) => Renews(o)') /\ (Applies(o) => Applies(o)')
  BY SameKept
<1>3. ("group" \in failed => "group" \in failed') /\ ("option" \in failed => "option" \in failed')
  OBVIOUS
<1>4. GroupOrSoon'
  BY <1>1, <1>2, <1>3, GroupKept
<1>5. OptionOrSoon'
  BY <1>1, <1>2, <1>3, OptionKept
<1> QED
  BY <1>4, <1>5 DEF Pending

LEMMA BecomesBusy ==
  ASSUME Threads, NEW c \in Calls, call[c] # None, NEW s \in Stages, NEW f \in Config \cup {None},
         NEW d \in Config \cup {None}, NEW b \in BOOLEAN, Becomes(c, s, f, d, b)
  PROVE  call'[c] # None
<1> DEFINE x == [op |-> call[c].op, at |-> s, cfg |-> f, data |-> d, moved |-> b]
<1>1. call[c] \in Call /\ DOMAIN call = Calls
  BY DEF Threads
<1>2. x \in Call
  BY <1>1, Remade
<1>3. call' = [call EXCEPT ![c] = x]
  BY DEF Becomes
<1> HIDE DEF x
<1> QED
  BY <1>1, <1>2, <1>3, NoneFacts

LEMMA RenamedBusy ==
  ASSUME Base, NEW c \in Calls, call[c] # None, call[c].at = "written"
  PROVE  /\ call[c].op.op \in {"join", "signin", "leave", "settings", "pause"} => Renamed(c, c) # None
         /\ Linux => call[c].op.op # "pause" /\ (call[c].op.op # "seen" => Renamed(c, c) # None)
<1>1. Linux => call[c].op.op # "pause"
  BY StepFacts DEF Fits, Linux
<1>2. ASSUME ~Does(c, {"seen"}), ~(Does(c, {"forget"}) /\ ~Linux) PROVE Renamed(c, c) # None
  <2>1. PICK s \in {"saved", "restart"} : Renamed(c, c) = SavedAt(call[c], s)
    BY <1>2 DEF Renamed, SavedAt
  <2>2. call[c] \in Call
    BY StepFacts
  <2> QED
    BY <2>1, <2>2, SavedRemade, NoneFacts DEF Stages
<1> QED
  BY <1>1, <1>2, SavingMeans

\* A call of the program goes on with other settings.
LEMMA WindowPending ==
  ASSUME Base, Pending, NEW c \in Calls, ~Command(c), call[c] # None, call[c].at \in {"begun", "left"},
         UNCHANGED <<disk, running, failed, load>>, mem \in Config,
         \A o \in Calls : o # c => call'[o] = call[o],
         call'[c] # None, call'[c].op = call[c].op, call'[c].at \in {"left", "changed"},
         call[c].op.op \in {"forget", "seen"} => mem'.group = mem.group /\ mem'.opt = mem.opt,
         call[c].op.op = "pause" => mem'.group = mem.group,
         call[c].op.op # "start"
  PROVE  Pending'
<1>0. SavedOrSoon /\ ReadLast /\ GroupOrSoon /\ OptionOrSoon
  BY NoneFacts DEF Pending
<1>1. (call[c].op.op \notin {"forget", "seen"} => ~Linux) /\ Linux' = Linux
  BY SavingMeans DEF Linux
<1>2. SavedOrSoon' /\ ReadLast'
  <2>1. ~Command(c)' /\ (At(c, "left")' \/ At(c, "changed")')
    BY <1>1, SavingMeans
  <2>2. Reads(c)
    BY SavingMeans DEF Reads, Comes
  <2>3. \A o \in Calls : Reads(o)
    BY <2>2, SameKept
  <2>4. ReadLast'
    BY <1>0, <2>3, ReadKept DEF disk
  <2> QED
    BY <2>1, <2>4 DEF SavedOrSoon
<1>3. \A o \in Calls : o # c => (Renews(o) => Renews(o)') /\ (Applies(o) => Applies(o)')
  BY SameKept
<1>4. \A h \in DOMAIN gen : gen'[h].group = gen[h].group /\ gen'[h].opt = gen[h].opt
  BY DEF running
<1>5. stop' = stop
  BY DEF running
<1>6. CASE call[c].op.op \in {"join", "signin", "leave", "settings"}
  <2>1. Renews(c)' /\ Applies(c)'
    BY <1>1, <1>6, WitnessMeans
  <2> QED
    BY <1>2, <2>1 DEF Pending, GroupOrSoon, OptionOrSoon
<1>7. CASE call[c].op.op = "pause"
  <2>1. Applies(c)' /\ ~Renews(c)
    BY <1>1, <1>7, WitnessMeans
  <2>2. GroupOrSoon'
    BY <1>0, <1>3, <1>4, <1>5, <1>7, <2>1, GroupKept
  <2>3. OptionOrSoon'
    BY <2>1 DEF OptionOrSoon
  <2> QED
    BY <1>2, <2>2, <2>3 DEF Pending
<1>8. CASE call[c].op.op \in {"forget", "seen"}
  <2>1. ~Applies(c) /\ ~Renews(c)
    BY <1>8, WitnessMeans
  <2>2. mem'.group = mem.group /\ \A o \in Calls : Renews(o) => Renews(o)'
    BY <1>3, <1>8, <2>1
  <2>3. GroupOrSoon'
    BY <1>0, <1>4, <1>5, <2>2, GroupKept
  <2>4. mem'.opt = mem.opt
    BY <1>8
  <2>5. \A o \in Calls : Applies(o) => Applies(o)'
    BY <1>3, <2>1
  <2>6. OptionOrSoon'
    BY <1>0, <1>4, <1>5, <2>4, <2>5, OptionKept
  <2> QED
    BY <1>2, <2>3, <2>6 DEF Pending
<1> QED
  BY <1>6, <1>7, <1>8, StepFacts

LEMMA OperationPending ==
  ASSUME Base, Writers, Pending, NEW c \in Calls,
         LeaveGroup(c) \/ SetGroup(c) \/ SetOption(c) \/ Forget(c) \/ Seen(c)
  PROVE  Pending'
<1>1. call[c] # None /\ call[c].at \in {"begun", "left"} /\ UNCHANGED <<disk, running, failed, load>>
  BY OperationFacts
<1>2. UNCHANGED <<file, gen, stop, failed>> /\ load'.platform = load.platform
  BY <1>1 DEF disk, running
<1>3. /\ call[c].op.op # "start" /\ (~Command(c) => ~Own(c)) /\ (Command(c) => Own(c))
      /\ call[c].op.op = "seen" => call[c].at = "begun"
  <2>1. Fits(call[c], mem, load)
    BY <1>1, StepFacts
  <2>2. call[c].op.op # "start" /\ (call[c].op.op = "seen" => call[c].at = "begun") /\ (Command(c) => Own(c))
    BY <1>1, <2>1, SavingMeans DEF Fits, Own, Linux
  <2>3. CASE Linux
    BY <1>1, <2>2, <2>3, SavingMeans DEF Writers, OneWriter
  <2>4. CASE ~Linux
    <3>1. ~Command(c)
      BY <2>4, SavingMeans
    <3>2. ~Own(c)
      BY <1>1, <2>1, <2>4, NoneFacts DEF Fits, Own, Linux
    <3> QED
      BY <2>2, <3>1, <3>2
  <2> QED
    BY <2>2, <2>3, <2>4
<1>4. CASE Ends(c) /\ UNCHANGED mem /\ call[c].op.op = "seen"
  <2>1. call'[c] = None /\ \A o \in Calls : o # c => call'[o] = call[o]
    BY <1>4, EndsCalm DEF Base
  <2>2. call[c].at = "begun"
    BY <1>3, <1>4
  <2>3. ~Renews(c) /\ ~Applies(c)
    BY <1>4, <2>2, WitnessMeans
  <2>4. Saves(c) /\ Reads(c)
    BY <2>1, <2>2, SavingMeans DEF Saves, Reads, Comes
  <2> QED
    BY <1>2, <1>4, <2>1, <2>3, <2>4, PendingKept
<1>5. CASE ~(Ends(c) /\ UNCHANGED mem /\ call[c].op.op = "seen")
  <2>1. PICK f \in Config, s \in {"left", "changed"} :
          /\ Set(c, f, s)
          /\ call[c].op.op \in {"forget", "seen"} => f.group = Mine(c).group /\ f.opt = Mine(c).opt
          /\ call[c].op.op = "pause" => f.group = Mine(c).group
    BY <1>5, OperationFacts
  <2>2. /\ Becomes(c, s, IF Own(c) THEN f ELSE call[c].cfg, call[c].data, call[c].moved)
        /\ mem' = IF Own(c) THEN mem ELSE f
    BY <1>1, <2>1, SetMoves DEF Base
  <2>3. /\ \A o \in Calls : o # c => call'[o] = call[o]
        /\ call'[c].op = call[c].op /\ call'[c].at = s
    BY <2>2, BecomesMost DEF Base
  <2>4. call'[c] # None
    <3> DEFINE g == IF Own(c) THEN f ELSE call[c].cfg
    <3>1. g \in Config \cup {None} /\ s \in Stages
      BY <1>1, <2>1, StepFacts DEF Stages
    <3>2. call[c].data \in Config \cup {None} /\ call[c].moved \in BOOLEAN
      BY <1>1, StepFacts
    <3>3. Becomes(c, s, g, call[c].data, call[c].moved)
      BY <2>2
    <3> HIDE DEF g
    <3> QED
      BY <1>1, <3>1, <3>2, <3>3, BecomesBusy DEF Base
  <2>5. CASE Command(c)
    <3>1. Linux /\ UNCHANGED mem
      BY <1>3, <2>2, <2>5 DEF Command
    <3>2. ~Renews(c) /\ ~Applies(c)
      BY <1>1, <3>1, WitnessMeans, StepFacts DEF Fits, Linux
    <3>3. Saves(c) /\ Reads(c)
      BY <1>1, <1>2, <2>3, <2>4, <2>5, <3>1, SavingMeans DEF Saves, Reads, Comes, Linux
    <3> QED
      BY <1>2, <2>3, <3>1, <3>2, <3>3, PendingKept
  <2>6. CASE ~Command(c)
    <3>1. mem' = f /\ Mine(c) = mem
      BY <1>3, <2>2, <2>6 DEF Mine
    <3>2. mem \in Config
      BY <1>1, <3>1, MineFacts DEF Base
    <3>3. /\ call[c].op.op \in {"forget", "seen"} => mem'.group = mem.group /\ mem'.opt = mem.opt
          /\ call[c].op.op = "pause" => mem'.group = mem.group
          /\ call'[c].at \in {"left", "changed"}
      BY <2>1, <2>3, <3>1
    <3> QED
      BY <1>1, <1>3, <2>3, <2>4, <2>6, <3>2, <3>3, WindowPending
  <2> QED
    BY <2>5, <2>6
<1> QED
  BY <1>4, <1>5

LEMMA SaveOpenPending ==
  ASSUME Base, Writers, Pending, NEW c \in Calls, SaveOpen(c)
  PROVE  Pending'
<1> SUFFICES ASSUME mem # None PROVE Pending'
  BY DEF SaveOpen, Pending
<1>1. /\ call[c] # None /\ call[c].at = "changed" /\ UNCHANGED <<file, mem, gen, stop, failed, load>>
      /\ Becomes(c, "writing", call[c].cfg, Mine(c), FALSE)
  BY BusyFacts, GoesBecomes DEF SaveOpen, Base, running
<1>2. /\ \A o \in Calls : o # c => call'[o] = call[o]
      /\ call'[c].op = call[c].op /\ call'[c].at = "writing" /\ call'[c].data = Mine(c)
  BY <1>1, BecomesMost DEF Base
<1>3. call'[c] # None
  <2>1. Mine(c) \in Config \cup {None}
    BY <1>1, MineFacts DEF Base
  <2> QED
    BY <1>1, <2>1, BecomesBusy, StepFacts DEF Stages, Base
<1>4. (Renews(c) => Renews(c)') /\ (Applies(c) => Applies(c)')
  BY <1>1, <1>2, <1>3, WitnessMeans DEF Linux
<1>5. Reads(c)
  BY <1>1, <1>2, SavingMeans DEF Reads, Comes
<1>6. CASE Command(c)
  <2>1. Saves(c)
    BY <1>1, <1>2, <1>3, <1>6, SavingMeans DEF Saves, Comes, Linux
  <2> QED
    BY <1>1, <1>2, <1>4, <1>5, <2>1, PendingKept
<1>7. CASE ~Command(c)
  <2>1. ~Own(c)
    <3>1. CASE Linux
      BY <1>1, <1>7, <3>1, SavingMeans, StepFacts DEF Writers, OneWriter, Fits
    <3>2. CASE ~Linux
      BY <1>1, <3>2, StepFacts DEF Fits, Own, Linux
    <3> QED
      BY <3>1, <3>2
  <2>2. Mine(c) = mem
    BY <2>1 DEF Mine
  <2>3. \A o \in Calls : Saving(o)' => call'[o].data = mem'
    BY <1>1, <1>2, <2>2, SaveAlone, SavingMeans
  <2>4. Saving(c)' /\ ~Command(c)'
    BY <1>1, <1>2, <1>3, <1>7, SavingMeans DEF Linux
  <2>5. SavedOrSoon'
    BY <2>3, <2>4 DEF SavedOrSoon
  <2>6. ReadLast'
    BY <1>1, <1>2, <1>5, SameKept, ReadKept DEF Pending
  <2> QED
    BY <1>1, <1>2, <1>4, <2>5, <2>6, RunningPending
<1> QED
  BY <1>6, <1>7

LEMMA SaveWritePending ==
  ASSUME Base, Writers, Pending, NEW c \in Calls, SaveWrite(c)
  PROVE  Pending'
<1>1. /\ call[c] # None /\ call[c].at = "writing" /\ UNCHANGED <<file, mem, gen, stop, failed, load>>
      /\ Becomes(c, "written", call[c].cfg, call[c].data, call[c].moved)
  BY SaveWriteFacts DEF running
<1>2. /\ \A o \in Calls : o # c => call'[o] = call[o]
      /\ call'[c].op = call[c].op /\ call'[c].at = "written" /\ call'[c].data = call[c].data
  BY <1>1, BecomesMost DEF Base
<1>3. call'[c] # None
  <2>1. /\ "written" \in Stages /\ call[c].cfg \in Config \cup {None}
        /\ call[c].data \in Config \cup {None} /\ call[c].moved \in BOOLEAN
    BY <1>1, StepFacts DEF Stages
  <2> QED
    BY <1>1, <2>1, BecomesBusy DEF Base
<1>4. (Renews(c) => Renews(c)') /\ (Applies(c) => Applies(c)')
  BY <1>1, <1>2, <1>3, WitnessMeans DEF Linux
<1>5. Saves(c) /\ Reads(c)
  BY <1>1, <1>2, <1>3, SavingMeans DEF Saves, Reads, Comes, Linux
<1> QED
  BY <1>1, <1>2, <1>4, <1>5, PendingKept

\* What c has marshalled is now what is saved.
LEMMA SaveRenamePending ==
  ASSUME Base, Alive, Writers, Pending, NEW c \in Calls, SaveRename(c)
  PROVE  Pending'
<1> SUFFICES ASSUME mem # None PROVE Pending'
  BY SaveRenameFacts DEF Pending
<1>1. /\ call[c] # None /\ call[c].at = "written" /\ call[c].data \in Config
      /\ file' = call[c].data /\ UNCHANGED <<mem, gen, stop, load>> /\ call'[c] = Renamed(c, c) /\ Mends
      /\ \A o \in Calls : o # c => call'[o] = call[o] /\ ~Saving(o)
  BY SaveRenameFacts DEF running
<1>2. /\ call[c].op.op \in {"join", "signin", "leave", "settings"} => call'[c] # None
      /\ call[c].op.op = "pause" => call'[c] # None
      /\ Linux => call[c].op.op # "pause" /\ (call[c].op.op # "seen" => call'[c] # None)
  BY <1>1, RenamedBusy
<1>3. call'[c] # None => /\ call'[c].op = call[c].op
                         /\ call[c].op.op = "pause" => call'[c].at = "saved"
                         /\ call[c].op.op # "pause" => call'[c].at = "restart"
  BY <1>1, RenamedFacts
<1>4. (Renews(c) => Renews(c)') /\ (Applies(c) => Applies(c)')
  BY <1>1, <1>2, <1>3, WitnessMeans DEF Linux
<1>5. \A o \in Calls : ~Saving(o)'
  BY <1>1, <1>3, SavingMeans
<1>6. failed \ {"save"} \subseteq failed' /\ (file' # mem' => failed' = failed)
  BY <1>1 DEF Mends
<1>7. Linux' = Linux
  BY <1>1 DEF Linux
<1>8. CASE Linux /\ call[c].op.op # "seen"
  <2>1. At(c, "restart")'
    BY <1>2, <1>3, <1>8, SavingMeans
  <2>2. SavedOrSoon' /\ ReadLast'
    BY <1>7, <1>8, <2>1 DEF SavedOrSoon, ReadLast
  <2> QED
    BY <1>1, <1>4, <1>6, <2>2, RunningPending
<1>9. CASE ~(Linux /\ call[c].op.op # "seen")
  <2>0. ~Command(c) /\ Saving(c)
    BY <1>1, <1>9, SavingMeans
  <2>1. \A o \in Calls : ~At(o, "read")
    <3>1. CASE Linux
      BY <1>1, <1>9, <3>1, LoadAlone, SavingMeans
    <3>2. CASE ~Linux
      BY <3>2, StepFacts, SavingMeans DEF Fits, Linux
    <3> QED
      BY <3>1, <3>2
  <2>2. ReadLast'
    BY <1>1, <1>3, <2>1, SavingMeans DEF ReadLast
  <2>3. CASE file' = mem
    <3>1. SavedOrSoon'
      BY <1>1, <1>5, <2>3 DEF SavedOrSoon
    <3> QED
      BY <1>1, <1>4, <1>6, <2>2, <3>1, RunningPending
  <2>4. CASE file' # mem
    <3>1. SavedOrSoon'
      <4>1. CASE "save" \in failed
        BY <1>1, <1>6, <2>4, <4>1 DEF SavedOrSoon
      <4>2. CASE Linux /\ \E o \in Calls : At(o, "restart") \/ At(o, "stopped") \/ At(o, "read")
        BY <1>1, <1>9, <4>2, LoadAlone, SavingMeans
      <4>3. CASE \E o \in Calls : ~Command(o) /\ (At(o, "left") \/ At(o, "changed"))
        <5>1. PICK o \in Calls : ~Command(o) /\ (At(o, "left") \/ At(o, "changed"))
          BY <4>3
        <5>2. o # c
          BY <1>1, <5>1, SavingMeans
        <5>3. call'[o] = call[o] /\ call[o] # None
          BY <1>1, <5>1, <5>2, SavingMeans
        <5>4. ~Command(o)' /\ (At(o, "left")' \/ At(o, "changed")')
          BY <1>7, <5>1, <5>3, SavingMeans
        <5> QED
          BY <5>4 DEF SavedOrSoon
      <4>4. CASE \A o \in Calls : Saving(o) /\ ~Command(o) => call[o].data = mem
        BY <1>1, <2>0, <2>4, <4>4
      <4> QED
        BY <4>1, <4>2, <4>3, <4>4 DEF Pending, SavedOrSoon
    <3> QED
      BY <1>1, <1>4, <1>6, <2>2, <3>1, RunningPending
  <2> QED
    BY <2>3, <2>4
<1> QED
  BY <1>8, <1>9

\* What a call that fails does not do is noted, unless it is a command's: what
\* a command does to its own settings nobody has to bring back.
LEMMA CallFailsPending ==
  ASSUME Base, Writers, Pending, NEW c \in Calls, CallFails(c)
  PROVE  Pending'
<1>1. /\ call[c] # None /\ call[c].at \in {"changed", "writing", "written"} /\ Ends(c)
      /\ UNCHANGED <<file, mem, gen, stop>> /\ failed' = failed \cup Undone(c)
  BY SavingMeans DEF CallFails, disk, running
<1> SUFFICES ASSUME mem # None PROVE Pending'
  BY <1>1 DEF Pending
<1>2. load'.platform = load.platform
  BY SpendKeeps DEF CallFails, Base, Outside
<1>3. call'[c] = None /\ \A o \in Calls : o # c => call'[o] = call[o]
  BY <1>1, EndsCalm DEF Base
<1>4. Reads(c)
  BY <1>1, <1>3, SavingMeans DEF Reads, Comes
<1>5. SavedOrSoon /\ ReadLast /\ GroupOrSoon /\ OptionOrSoon
  BY DEF Pending
<1>6. CASE Command(c)
  <2>1. failed' = failed /\ Linux
    <3>1. Linux
      BY <1>6, SavingMeans
    <3>2. Undone(c) = {}
      BY <1>6, Zenon DEF Undone
    <3> QED
      BY <1>1, <3>1, <3>2
  <2>2. ~Renews(c) /\ ~Applies(c)
    BY <1>1, <2>1, WitnessMeans, StepFacts DEF Fits, Linux
  <2>3. Saves(c)
    BY <1>1, <1>3, <1>6, SavingMeans DEF Saves, Comes
  <2> QED
    BY <1>1, <1>2, <1>3, <1>4, <2>1, <2>2, <2>3, PendingKept
<1>7. CASE ~Command(c)
  <2>1. "save" \in failed'
    BY <1>1, <1>7 DEF Undone
  <2>2. SavedOrSoon'
    BY <2>1 DEF SavedOrSoon
  <2>3. ReadLast'
    BY <1>1, <1>2, <1>3, <1>4, <1>5, SameKept, ReadKept
  <2>4. \A o \in Calls : o # c => (Renews(o) => Renews(o)') /\ (Applies(o) => Applies(o)')
    BY <1>2, <1>3, SameKept
  <2>5. Does(c, {"pause"}) => ~Renews(c)
    BY <1>1, SavingMeans, WitnessMeans
  <2>6. Does(c, {"seen", "forget"}) => ~Renews(c) /\ ~Applies(c)
    BY <1>1, SavingMeans, WitnessMeans
  <2>7. GroupOrSoon'
    <3>1. CASE Does(c, {"seen", "forget", "pause"})
      <4>1. \A o \in Calls : Renews(o) => Renews(o)'
        BY <2>4, <2>5, <2>6, <3>1, SavingMeans
      <4> QED
        BY <1>1, <1>5, <4>1, GroupKept
    <3>2. CASE ~Does(c, {"seen", "forget", "pause"})
      <4>1. "group" \in failed'
        BY <1>1, <1>7, <3>2 DEF Undone, Does
      <4> QED
        BY <4>1 DEF GroupOrSoon
    <3> QED
      BY <3>1, <3>2
  <2>8. OptionOrSoon'
    <3>1. CASE Does(c, {"seen", "forget"})
      <4>1. \A o \in Calls : Applies(o) => Applies(o)'
        BY <2>4, <2>6, <3>1
      <4> QED
        BY <1>1, <1>5, <4>1, OptionKept
    <3>2. CASE ~Does(c, {"seen", "forget"})
      <4>1. "option" \in failed'
        BY <1>1, <1>7, <3>2 DEF Undone
      <4> QED
        BY <4>1, Zenon DEF OptionOrSoon
    <3> QED
      BY <3>1, <3>2
  <2> QED
    BY <2>2, <2>3, <2>7, <2>8 DEF Pending
<1> QED
  BY <1>6, <1>7

LEMMA ApplySettingsPending ==
  ASSUME Base, Pending, NEW c \in Calls, ApplySettings(c)
  PROVE  Pending'
<1>1. /\ call[c] # None /\ call[c].at = "saved" /\ Ends(c) /\ UNCHANGED <<file, mem, stop, load>>
      /\ failed' = failed \ {"option"}
  BY BusyFacts DEF ApplySettings, Base, disk
<1>2. call[c].op.op = "pause" /\ ~Linux
  BY <1>1, StepFacts DEF Fits, Linux
<1>3. mem \in Config /\ mem # None
  BY <1>1, <1>2, StepFacts, NoneFacts DEF Fits, Base, Files, Linux
<1>4. call'[c] = None /\ \A o \in Calls : o # c => call'[o] = call[o]
  BY <1>1, EndsCalm DEF Base
<1>5. ~Renews(c) /\ Saves(c) /\ Reads(c)
  <2>1. ~Renews(c)
    BY <1>1, <1>2, WitnessMeans
  <2>2. Saves(c) /\ Reads(c)
    BY <1>1, <1>4, SavingMeans DEF Saves, Reads, Comes
  <2> QED
    BY <2>1, <2>2
<1>6. \A o \in Calls : (Renews(o) => Renews(o)') /\ Saves(o) /\ Reads(o)
  BY <1>1, <1>4, <1>5, SameKept
<1>7. SavedOrSoon' /\ ReadLast'
  <2>1. "save" \in failed => "save" \in failed'
    BY <1>1
  <2> QED
    BY <1>1, <1>3, <1>6, <2>1, SavedKept, ReadKept DEF Pending
<1>8. /\ \A h \in DOMAIN gen : gen'[h].group = gen[h].group
      /\ stop # 0 => gen'[stop].opt = mem.opt
  <2>1. CASE stop = 0
    BY <2>1 DEF ApplySettings
  <2>2. CASE stop # 0
    <3>1. stop \in DOMAIN gen /\ gen[stop] \in Generation
      BY <2>2 DEF Base, Generations
    <3>2. gen' = [gen EXCEPT ![stop] = WithOpt(gen[stop], mem.opt)]
      BY <2>2 DEF ApplySettings, WithOpt
    <3>3. WithOpt(gen[stop], mem.opt).group = gen[stop].group
      BY <3>1 DEF Generation, WithOpt
    <3>4. WithOpt(gen[stop], mem.opt).opt = mem.opt
      BY <3>1 DEF Generation, WithOpt
    <3>5. gen'[stop] = WithOpt(gen[stop], mem.opt)
      BY <3>1, <3>2
    <3>6. \A h \in DOMAIN gen : h # stop => gen'[h] = gen[h]
      BY <3>2
    <3>7. gen'[stop].opt = mem.opt
      BY <3>4, <3>5, Zenon
    <3> QED
      BY <3>3, <3>5, <3>6, <3>7
  <2> QED
    BY <2>1, <2>2
<1>9. GroupOrSoon'
  <2>1. "group" \in failed => "group" \in failed'
    BY <1>1
  <2> QED
    BY <1>1, <1>3, <1>6, <1>8, <2>1, GroupKept DEF Pending
<1>10. OptionOrSoon'
  <2>1. stop' # 0 => gen'[stop'].opt = mem'.opt
    BY <1>1, <1>8, Zenon
  <2> QED
    BY <2>1, Zenon DEF OptionOrSoon
<1> QED
  BY <1>7, <1>9, <1>10 DEF Pending

\* A command that could not reach the daemon leaves it starting, or down.
LEMMA ReloadFailsPending ==
  ASSUME Base, Alive, Pending, NEW c \in Calls, ReloadFails(c)
  PROVE  Pending'
<1>1. UNCHANGED <<file, mem, gen, stop, load>> /\ Ends(c) /\ Command(c)
  BY DEF ReloadFails, disk, running
<1> SUFFICES ASSUME mem # None PROVE Pending'
  BY <1>1 DEF Pending
<1>2. PICK o \in Calls : Does(o, {"start"}) /\ At(o, "restart")
  BY DEF ReloadFails
<1>3. o # c
  BY <1>1, <1>2 DEF Command, Does
<1>4. call'[o] = call[o]
  BY <1>1, <1>3, EndsCalm DEF Base
<1>5. At(o, "restart")' /\ Linux'
  BY <1>1, <1>2, <1>4, SavingMeans DEF Command, Linux
<1> QED
  BY <1>5 DEF Pending, SavedOrSoon, ReadLast, GroupOrSoon, OptionOrSoon, Renews, Applies

LEMMA StopGenerationPending ==
  ASSUME Base, Pending, NEW c \in Calls, StopGeneration(c)
  PROVE  Pending'
<1>1. /\ call[c] # None /\ call[c].at = "restart" /\ UNCHANGED <<file, mem, failed, load>>
      /\ Becomes(c, "stopped", call[c].cfg, call[c].data, call[c].moved)
  BY StopGenerationFacts DEF disk
<1> SUFFICES ASSUME mem # None PROVE Pending'
  BY <1>1 DEF Pending
<1>2. /\ \A o \in Calls : o # c => call'[o] = call[o]
      /\ call'[c].op = call[c].op /\ call'[c].at = "stopped"
  BY <1>1, BecomesMost DEF Base
<1>3. call'[c] # None
  <2>1. /\ "stopped" \in Stages /\ call[c].cfg \in Config \cup {None}
        /\ call[c].data \in Config \cup {None} /\ call[c].moved \in BOOLEAN
    BY <1>1, StepFacts DEF Stages
  <2> QED
    BY <1>1, <2>1, BecomesBusy DEF Base
<1>4. At(c, "stopped")'
  BY <1>2, <1>3, SavingMeans
<1>5. Saves(c)
  BY <1>1, <1>2, <1>3, SavingMeans DEF Saves, Comes
<1>6. \A o \in Calls : Saves(o)
  BY <1>1, <1>2, <1>5, SameKept
<1>7. SavedOrSoon'
  BY <1>1, <1>6, SavedKept DEF Pending
<1> QED
  BY <1>4, <1>7 DEF Pending, ReadLast, GroupOrSoon, OptionOrSoon, Renews, Applies, Restarting

LEMMA ReadSettingsPending ==
  ASSUME Base, Turns, Writers, Pending, NEW c \in Calls, ReadSettings(c)
  PROVE  Pending'
<1>1. /\ call[c] # None /\ call[c].at = "stopped" /\ Linux
      /\ UNCHANGED <<file, mem, gen, stop, failed, load>>
      /\ Becomes(c, "read", call[c].cfg, IF file = Part THEN None ELSE file, call[c].moved)
  BY ReadSettingsFacts DEF disk, running
<1>2. file # Part /\ file \in Config
  BY DEF Writers, OneWriter, Base, Files
<1>3. Becomes(c, "read", call[c].cfg, file, call[c].moved)
  BY <1>1, <1>2
<1>4. /\ \A o \in Calls : o # c => call'[o] = call[o]
      /\ call'[c].op = call[c].op /\ call'[c].at = "read" /\ call'[c].data = file
  BY <1>3, BecomesMost DEF Base
<1>5. call'[c] # None
  <2>1. /\ "read" \in Stages /\ call[c].cfg \in Config \cup {None}
        /\ file \in Config \cup {None} /\ call[c].moved \in BOOLEAN
    BY <1>1, <1>2, StepFacts DEF Stages
  <2> QED
    BY <1>1, <1>3, <2>1, BecomesBusy DEF Base
<1> SUFFICES ASSUME mem # None PROVE Pending'
  BY <1>1 DEF Pending
<1>6. At(c, "read")' /\ Linux'
  BY <1>1, <1>4, <1>5, SavingMeans DEF Linux
<1>7. SavedOrSoon'
  BY <1>6 DEF SavedOrSoon
<1>8. ReadLast'
  <2>1. \A u \in Calls : At(u, "read")' => u = c
    BY <1>1, <1>4, Means, SavingMeans DEF Turns, InTurn
  <2> QED
    BY <1>1, <1>4, <2>1 DEF ReadLast
<1> QED
  BY <1>6, <1>7, <1>8 DEF Pending, GroupOrSoon, OptionOrSoon, Renews, Applies, Restarting

LEMMA LoadSettingsPending ==
  ASSUME Base, Alive, Turns, Writers, Pending, NEW c \in Calls, LoadSettings(c)
  PROVE  Pending'
<1>1. /\ call[c] # None /\ call[c].at = "read" /\ Linux /\ UNCHANGED <<file, load>>
      /\ call[c].data # None /\ mem' = call[c].data
      /\ \A o \in Calls : o # c => call'[o] = call[o]
      /\ call'[c] # None /\ call'[c].op = call[c].op /\ call'[c].at = "loaded"
  BY LoadSettingsMoves DEF disk
<1>2. At(c, "loaded")' /\ Linux'
  BY <1>1, SavingMeans DEF Linux
<1>3. \A o \in Calls : ~At(o, "read")'
  BY <1>1, Means, SavingMeans DEF Turns, InTurn
<1>4. ReadLast'
  BY <1>3 DEF ReadLast
<1>5. SavedOrSoon'
  <2>1. CASE \E o \in Calls : At(o, "restart") \/ At(o, "stopped")
    <3>1. PICK o \in Calls : At(o, "restart") \/ At(o, "stopped")
      BY <2>1
    <3>2. At(o, "restart")' \/ At(o, "stopped")'
      BY <1>1, <3>1, SavingMeans
    <3> QED
      BY <1>2, <3>2 DEF SavedOrSoon
  <2>2. CASE ~\E o \in Calls : At(o, "restart") \/ At(o, "stopped")
    <3>1. mem # None
      BY <1>1, StepFacts DEF Fits
    <3>2. mem' = file'
      BY <1>1, <2>2, <3>1, SavingMeans DEF Pending, ReadLast
    <3>3. \A o \in Calls : Saving(o)' => Command(o)'
      <4>1. \A o \in Calls : ~Does(o, {"seen"})
        BY <1>1, LoadAlone
      <4>2. \A o \in Calls : Saving(o)' => Saving(o)
        BY <1>1, SavingMeans
      <4>3. \A o \in Calls : Saving(o) => call[o].op.op # "start"
        BY StepFacts, SavingMeans DEF Fits
      <4> QED
        BY <1>1, <1>2, <4>1, <4>2, <4>3, SavingMeans
    <3> QED
      BY <3>2, <3>3 DEF SavedOrSoon
  <2> QED
    BY <2>1, <2>2
<1> QED
  BY <1>2, <1>4, <1>5 DEF Pending, GroupOrSoon, OptionOrSoon, Renews, Applies, Restarting

\* The new generation is of the settings of the program.
LEMMA BuildPending ==
  ASSUME Base, Turns, Pending, NEW c \in Calls, Build(c)
  PROVE  Pending'
<1>1. /\ call[c] # None /\ call[c].at = IF Linux THEN "loaded" ELSE "stopped"
      /\ mem \in Config /\ UNCHANGED <<file, mem, load>> /\ Ends(c)
      /\ "save" \in failed => "save" \in failed'
  BY BuildFacts DEF disk, Build
<1>2. call'[c] = None /\ \A o \in Calls : o # c => call'[o] = call[o]
  BY <1>1, EndsCalm DEF Base
<1>3. Saves(c) /\ Reads(c)
  <2>1. call[c].op.op # "seen" /\ (~Linux => \A u \in Calls : ~At(u, "read"))
    BY <1>1, StepFacts, SavingMeans DEF Fits, Linux
  <2>2. Saves(c)
    BY <1>1, <1>2, SavingMeans DEF Saves, Comes
  <2>3. Reads(c)
    BY <1>1, <1>2, <2>1, SavingMeans DEF Reads, Comes
  <2> QED
    BY <2>2, <2>3
<1>4. \A o \in Calls : Saves(o) /\ Reads(o)
  BY <1>1, <1>2, <1>3, SameKept
<1>5. SavedOrSoon' /\ ReadLast'
  BY <1>1, <1>4, SavedKept, ReadKept, NoneFacts DEF Pending
<1>6. stop = 0
  BY <1>1, Means DEF Turns, InTurn
<1>7. CASE mem.group = None
  <2>1. stop' = 0 /\ mem'.group = None
    BY <1>1, <1>6, <1>7, BuildFacts
  <2> QED
    BY <1>5, <2>1 DEF Pending, GroupOrSoon, OptionOrSoon
<1>8. CASE mem.group # None
  <2>1. PICK n \in Nat : stop' = n + 1 /\ gen'[n + 1] = Fresh
    BY <1>8, BuildFacts
  <2>2. stop' # 0 /\ gen'[stop'] = Fresh
    BY <2>1
  <2>3. Fresh.group = mem'.group
    BY <1>1 DEF Fresh
  <2>4. Fresh.opt = mem'.opt
    BY <1>1 DEF Fresh
  <2>5. gen'[stop'].opt = mem'.opt
    BY <2>2, <2>4, Zenon
  <2>6. OptionOrSoon'
    BY <2>5, Zenon DEF OptionOrSoon
  <2>7. GroupOrSoon'
    BY <1>1, <1>8, <2>2, <2>3 DEF GroupOrSoon
  <2> QED
    BY <1>5, <2>6, <2>7 DEF Pending
<1> QED
  BY <1>7, <1>8

\* A program that starts has the saved settings, and restarts sync.
LEMMA StartProgramPending ==
  ASSUME Base, NEW c \in Calls, StartProgram(c)
  PROVE  Pending'
<1>1. /\ mem = None /\ mem' = file /\ UNCHANGED <<file, load>>
      /\ \A o \in Calls : o # c => call'[o] = call[o]
      /\ call'[c] # None /\ call'[c].op.op = "start" /\ call'[c].at = "restart"
  BY StartProgramFacts DEF disk
<1>2. At(c, "restart")'
  BY <1>1, SavingMeans
<1>3. SavedOrSoon'
  <2>1. CASE Linux
    <3>1. Linux'
      BY <1>1, <2>1 DEF Linux
    <3> QED
      BY <1>2, <3>1, Zenon DEF SavedOrSoon
  <2>2. CASE ~Linux
    <3>1. \A o \in Calls : call[o] = None
      BY <1>1, <2>2, StepFacts DEF Fits, Linux
    <3>2. \A o \in Calls : ~Saving(o)'
      BY <1>1, <3>1, SavingMeans
    <3>3. mem' = file'
      BY <1>1
    <3> QED
      BY <3>2, <3>3, Zenon DEF SavedOrSoon
  <2> QED
    BY <2>1, <2>2
<1> QED
  BY <1>2, <1>3 DEF Pending, ReadLast, GroupOrSoon, OptionOrSoon, Renews, Applies

LEMMA BeginPending ==
  ASSUME Base, Pending, NEW c \in Calls, NEW o \in load.ops, Begin(c, o)
  PROVE  Pending'
<1>1. /\ \A u \in Calls : u # c => call'[u] = call[u]
      /\ call[c] = None /\ call'[c].at = "begun" /\ UNCHANGED <<mem, file, gen, stop, failed>>
      /\ load'.platform = load.platform
  BY BeginFacts DEF disk, running
<1>2. ~Renews(c) /\ ~Applies(c)
  BY <1>1, WitnessMeans
<1>3. Saves(c) /\ Reads(c)
  BY <1>1, SavingMeans DEF Saves, Reads, Comes
<1> QED
  BY <1>1, <1>2, <1>3, PendingKept

\* No thread moves.
LEMMA StillPending ==
  ASSUME Base, Pending, UNCHANGED <<mem, file, call, stop, failed>>, load'.platform = load.platform,
         \A h \in DOMAIN gen : gen'[h].group = gen[h].group /\ gen'[h].opt = gen[h].opt
  PROVE  Pending'
<1> SUFFICES ASSUME mem # None PROVE Pending'
  BY DEF Pending
<1>1. \A o \in Calls : (Renews(o) => Renews(o)') /\ (Applies(o) => Applies(o)') /\ Saves(o) /\ Reads(o)
  BY SameKept
<1>2. SavedOrSoon' /\ ReadLast'
  BY <1>1, SavedKept, ReadKept DEF Pending
<1>3. GroupOrSoon'
  BY <1>1, GroupKept DEF Pending
<1>4. OptionOrSoon'
  BY <1>1, OptionKept DEF Pending
<1> QED
  BY <1>2, <1>3, <1>4 DEF Pending

LEMMA StepPending == Base /\ Alive /\ Turns /\ Writers /\ Pending /\ [Next]_vars => Pending'
<1> SUFFICES ASSUME Base, Alive, Turns, Writers, Pending, [Next]_vars PROVE Pending'
  OBVIOUS
<1>1. ASSUME NEW c \in Calls, SaveOpen(c) \/ SaveWrite(c) \/ SaveRename(c) \/ ApplySettings(c)
      PROVE  Pending'
  BY <1>1, SaveOpenPending, SaveWritePending, SaveRenamePending, ApplySettingsPending
<1>2. ASSUME NEW c \in Calls,
             \/ ReloadFails(c) \/ StopGeneration(c) \/ ReadSettings(c) \/ LoadSettings(c) \/ Build(c)
             \/ CallFails(c)
      PROVE  Pending'
  BY <1>2, ReloadFailsPending, StopGenerationPending, ReadSettingsPending, LoadSettingsPending,
     BuildPending, CallFailsPending
<1>3. ASSUME NEW c \in Calls, StartProgram(c) \/ \E o \in load.ops : Begin(c, o)
      PROVE  Pending'
  BY <1>3, StartProgramPending, BeginPending
<1>4. ASSUME NEW g \in DOMAIN gen, (Run(g) \/ ClosedByServer(g)) \/ Lost(g)
      PROVE  Pending'
  BY <1>4, ClientFacts, StillPending DEF disk
<1>5. CASE Crash
  BY <1>5, CrashFacts DEF Pending
<1>6. CASE (Turn \/ \E t \in Tokens : Revoke(t)) \/ UNCHANGED vars
  BY <1>6, StillFacts, StillPending DEF disk
<1> QED
  BY <1>1, <1>2, <1>3, <1>4, <1>5, <1>6, OperationPending, NextCases

\* What holds between two steps while one call writes at a time.
Together == Base /\ Alive /\ Failures /\ Turns /\ Writers /\ Pending

LEMMA AlwaysInStep == Spec /\ Apart => []Together
<1>1. Init /\ Apart => Together
  BY InitBase, InitTurns, InitWriters DEF Init, Alive, Idle, Failures, Pending, Together
<1>2. Together /\ [Next]_vars => Together'
  BY StepBase, StepAlive, StepFailures, StepTurns, StepWriters, StepPending DEF Together
<1> QED
  BY <1>1, <1>2, PTL DEF Spec

-----------------------------------------------------------------------------
(* What the model promises.                                                *)

\* Every variable has its type, whatever calls run at a time: the settings in
\* memory are always whole ones, and generations are numbered in turn.
THEOREM TypedHolds == Spec => [](Typed /\ Placed)
BY AlwaysPlaced, BaseIs, PTL

\* Restart leaves no generation running that the program does not hold: on
\* Linux for any number of commands at a time, because restartMu lets one
\* restart run; on Windows as long as one window call runs at a time.
THEOREM OneRunningHolds == Spec /\ OneCall => []OneRunning
<1>1. Turns => OneRunning
  BY DEF Turns
<1> QED
  BY <1>1, AlwaysTurns, PTL

\* The settings file is never in part, wherever the program or a command is
\* killed: Save writes a file of its own and renames it.
THEOREM TypeCorrect == Spec /\ Apart => []TypeOK
<1>1. Together => TypeOK
  BY BaseIs DEF Together, Writers, OneWriter, TypeOK, Typed
<1> QED
  BY <1>1, AlwaysInStep, PTL

\* Everything that holds between two steps while one call writes at a time.
THEOREM InductiveHolds == Spec /\ Apart => []Inductive
<1>1. Together => Inductive
  BY BaseIs DEF Together, Turns, Writers, Inductive
<1> QED
  BY <1>1, AlwaysInStep, PTL

\* Between two calls the program works with what is saved, and what runs is
\* what the settings say: join, sign in, leave, pause, set and forget bring
\* file, memory and running sync together, also when the program is killed in
\* between or the client of a generation fails, and a call that fails leaves
\* apart only what it has changed and not carried on.
THEOREM InStepHolds == Spec /\ Apart => []InStep
<1>1. ASSUME Base, Pending, Busy = {}, mem # None
      PROVE  /\ mem = file \/ "save" \in failed
             /\ (IF mem.group = None THEN stop = 0 ELSE stop # 0 /\ gen[stop].group = mem.group)
                \/ "group" \in failed
             /\ (stop # 0 => gen[stop].opt = mem.opt) \/ "option" \in failed
  <2>1. \A c \in Calls : call[c] = None
    BY <1>1 DEF Busy, Idle
  <2>2. \A c \in Calls : ~Renews(c) /\ ~Applies(c)
    BY <2>1, WitnessMeans
  <2>3. \A c \in Calls : ~Saving(c) /\ \A s : ~At(c, s)
    BY <2>1, SavingMeans
  <2>4. SavedOrSoon /\ GroupOrSoon /\ OptionOrSoon
    BY <1>1 DEF Pending
  <2>5. mem = file \/ "save" \in failed
    BY <2>3, <2>4 DEF SavedOrSoon
  <2>6. (stop # 0 => gen[stop].opt = mem.opt) \/ "option" \in failed
    BY <2>2, <2>4, Zenon DEF OptionOrSoon
  <2>7. (IF mem.group = None THEN stop = 0 ELSE stop # 0 /\ gen[stop].group = mem.group)
        \/ "group" \in failed
    BY <2>2, <2>4 DEF GroupOrSoon
  <2> QED
    BY <2>5, <2>6, <2>7, Zenon
<1>2. Together => InStep
  BY <1>1 DEF InStep, Together
<1> QED
  BY <1>2, AlwaysInStep, PTL

-----------------------------------------------------------------------------
(* A client that ends is shown: NeverSilent.                               *)

\* A step after which the program holds no ended client that it did not hold, or
\* which shows the refusal.
LEMMA SilentKept ==
  ASSUME NeverSilent, signedOut => signedOut',
         \A g \in DOMAIN gen' : Holds(g)' /\ gen'[g].client = "ended" =>
           (g \in DOMAIN gen /\ Holds(g) /\ gen[g].client = "ended") \/ signedOut'
  PROVE  NeverSilent'
BY Zenon DEF NeverSilent

LEMMA SameSilent ==
  ASSUME NeverSilent, UNCHANGED <<gen, stop, signedOut>>
  PROVE  NeverSilent'
BY Zenon DEF NeverSilent, Holds

\* Nothing is held after the step.
LEMMA NoneHeld ==
  ASSUME stop' = 0, Base'
  PROVE  NeverSilent'
<1>1. \A g \in DOMAIN gen' : g # 0
  BY DEF Base, Generations
<1> QED
  BY <1>1 DEF NeverSilent, Holds

LEMMA RestartSpeaks ==
  ASSUME Base, Base', Turns, NeverSilent, NEW c \in Calls,
         StopGeneration(c) \/ LoadSettings(c) \/ Build(c)
  PROVE  NeverSilent'
<1>1. CASE StopGeneration(c)
  BY <1>1, NoneHeld DEF StopGeneration
<1>2. ASSUME LoadSettings(c) \/ Build(c) PROVE stop = 0
  <2>1. Restarting(c)
    BY <1>2, LoadSettingsFacts, BuildFacts, Means, Zenon
  <2> QED
    BY <2>1 DEF Turns, InTurn
<1>3. CASE LoadSettings(c)
  BY <1>2, <1>3, LoadSettingsFacts, NoneHeld
<1>4. CASE Build(c)
  <2>1. CASE mem.group = None
    BY <1>2, <1>4, <2>1, BuildFacts, NoneHeld
  <2>2. CASE mem.group # None
    <3>1. PICK n \in Nat : stop' = n + 1 /\ gen'[n + 1] = Fresh
      BY <1>4, <2>2, BuildFacts
    <3>2. Fresh.group \in Tokens => Fresh.client = "dial"
      BY DEF Fresh
    <3>3. \A g \in DOMAIN gen' : Holds(g)' => gen'[g].client # "ended"
      BY <3>1, <3>2 DEF Holds
    <3> QED
      BY <3>3 DEF NeverSilent
  <2> QED
    BY <2>1, <2>2
<1> QED
  BY <1>1, <1>3, <1>4

\* The running generation gets its options; no client is touched.
LEMMA ApplySpeaks ==
  ASSUME Base, NeverSilent, NEW c \in Calls, ApplySettings(c)
  PROVE  NeverSilent'
<1>1. UNCHANGED <<stop, signedOut>>
  BY DEF ApplySettings
<1>2. CASE stop = 0
  BY <1>1, <1>2, SameSilent DEF ApplySettings
<1>3. CASE stop # 0
  <2>1. stop \in DOMAIN gen /\ gen[stop] \in Generation
    BY <1>3 DEF Base, Generations
  <2> DEFINE x == [gen[stop] EXCEPT !.opt = mem.opt]
  <2>2. x.client = gen[stop].client /\ x.up = gen[stop].up /\ x.group = gen[stop].group
    BY <2>1 DEF Generation
  <2>3. gen' = [gen EXCEPT ![stop] = x]
    BY <1>3 DEF ApplySettings
  <2> HIDE DEF x
  <2>4. /\ DOMAIN gen' = DOMAIN gen
        /\ \A g \in DOMAIN gen : /\ gen'[g].client = gen[g].client
                                 /\ gen'[g].up => gen[g].up
                                 /\ gen'[g].group = gen[g].group
    BY <2>1, <2>2, <2>3
  <2>5. \A g \in DOMAIN gen' : Holds(g)' /\ gen'[g].client = "ended" =>
          g \in DOMAIN gen /\ Holds(g) /\ gen[g].client = "ended"
    BY <1>1, <2>4 DEF Holds
  <2> QED
    BY <1>1, <2>5, SilentKept, Zenon
<1> QED
  BY <1>2, <1>3

\* A client that has not been stopped ends only by showing the refusal.
LEMMA RunEnds ==
  ASSUME Base, NEW g \in DOMAIN gen, (Run(g) \/ ClosedByServer(g)) \/ Lost(g)
  PROVE  /\ signedOut => signedOut'
         /\ \E w \in ClientStages : /\ gen' = [gen EXCEPT ![g].client = w]
                                    /\ w = "ended" => ~gen[g].up \/ signedOut'
<1>1. CASE Dial(g)
  <2> DEFINE w == IF ~gen[g].up THEN "ended" ELSE IF ~reachable THEN "failed"
                  ELSE IF gen[g].group \in revoked THEN "refused" ELSE "linked"
  <2>1. w \in ClientStages /\ (w = "ended" => ~gen[g].up)
    BY DEF ClientStages
  <2>2. gen' = [gen EXCEPT ![g].client = w] /\ UNCHANGED signedOut
    BY <1>1 DEF Dial, Client
  <2> HIDE DEF w
  <2> QED
    BY <2>1, <2>2
<1>2. ASSUME NEW a, NEW b \in ClientStages, b # "ended", Client(g, a, b), signedOut => signedOut'
      PROVE  /\ signedOut => signedOut'
             /\ \E w \in ClientStages : /\ gen' = [gen EXCEPT ![g].client = w]
                                        /\ w = "ended" => ~gen[g].up \/ signedOut'
  BY <1>2 DEF Client
<1>3. ASSUME NEW a, NEW b \in ClientStages \ {"ended"},
             Client(g, a, IF gen[g].up THEN b ELSE "ended"), UNCHANGED signedOut
      PROVE  /\ signedOut => signedOut'
             /\ \E w \in ClientStages : /\ gen' = [gen EXCEPT ![g].client = w]
                                        /\ w = "ended" => ~gen[g].up \/ signedOut'
  <2>1. CASE gen[g].up
    BY <1>3, <2>1 DEF Client
  <2>2. CASE ~gen[g].up
    BY <1>3, <2>2 DEF Client, ClientStages
  <2> QED
    BY <2>1, <2>2
<1>4. "on" \in ClientStages \ {"ended"} /\ "failed" \in ClientStages \ {"ended"}
      /\ "wait" \in ClientStages \ {"ended"} /\ "failing" \in ClientStages \ {"ended"}
      /\ "told" \in ClientStages \ {"ended"} /\ "outing" \in ClientStages \ {"ended"} /\ "dial" \in ClientStages \ {"ended"}
  BY DEF ClientStages
<1>5. CASE Connected(g)
  <2>1. Client(g, "linked", "on") /\ (signedOut => signedOut')
    BY <1>5 DEF Connected, Shows
  <2> QED
    BY <1>2, <1>4, <2>1
<1>6. CASE SessionEnds(g)
  <2>1. Client(g, "on", "failed") /\ UNCHANGED signedOut
    BY <1>6 DEF SessionEnds
  <2> QED
    BY <1>2, <1>4, <2>1
<1>7. CASE ShowsError(g)
  <2>1. Client(g, "failing", "wait") /\ (signedOut => signedOut')
    BY <1>7 DEF ShowsError, Shows
  <2> QED
    BY <1>2, <1>4, <2>1
<1>8. CASE Fails(g)
  BY <1>3, <1>4, <1>8 DEF Fails
<1>9. CASE Refused(g)
  BY <1>3, <1>4, <1>9 DEF Refused
<1>10. CASE Waited(g)
  BY <1>3, <1>4, <1>10 DEF Waited
<1>11. CASE SignedOut(g)
  <2>1. signedOut' /\ gen' = [gen EXCEPT ![g].client = "ended"]
    BY <1>11 DEF SignedOut, Shows, Client
  <2> QED
    BY <2>1 DEF ClientStages
<1>12. CASE Lost(g)
  <2>1. UNCHANGED signedOut /\ gen' = [gen EXCEPT ![g].client = "failed"]
    BY <1>12 DEF Lost
  <2> QED
    BY <1>4, <2>1
<1>13. CASE ShowsRefusal(g)
  <2>1. Client(g, "told", "outing") /\ (signedOut => signedOut')
    BY <1>13 DEF ShowsRefusal, Shows
  <2> QED
    BY <1>2, <1>4, <2>1
<1>14. CASE ClosedByServer(g)
  <2>1. Client(g, "on", "failed") /\ UNCHANGED signedOut
    BY <1>14 DEF ClosedByServer
  <2> QED
    BY <1>2, <1>4, <2>1
<1> QED
  BY <1>1, <1>5, <1>6, <1>7, <1>8, <1>9, <1>10, <1>11, <1>12, <1>13, <1>14 DEF Run

LEMMA RunSpeaks ==
  ASSUME Base, NeverSilent, NEW g \in DOMAIN gen, (Run(g) \/ ClosedByServer(g)) \/ Lost(g)
  PROVE  NeverSilent'
<1>1. PICK w \in ClientStages : /\ gen' = [gen EXCEPT ![g].client = w]
                                /\ w = "ended" => ~gen[g].up \/ signedOut'
  BY RunEnds
<1>2. UNCHANGED stop /\ (signedOut => signedOut')
  BY ClientFacts, RunEnds
<1> DEFINE x == [gen[g] EXCEPT !.client = w]
<1>3. x.client = w /\ x.up = gen[g].up /\ x.group = gen[g].group
  BY DEF Base, Generations, Generation
<1>4. gen' = [gen EXCEPT ![g] = x]
  BY <1>1
<1> HIDE DEF x
<1>5. /\ DOMAIN gen' = DOMAIN gen
      /\ \A h \in DOMAIN gen : gen'[h] = IF h = g THEN x ELSE gen[h]
  BY <1>4
<1>6. ASSUME NEW h \in DOMAIN gen', Holds(h)', gen'[h].client = "ended"
      PROVE  (h \in DOMAIN gen /\ Holds(h) /\ gen[h].client = "ended") \/ signedOut'
  <2>1. CASE h = g
    <3>1. w = "ended" /\ gen[g].up
      BY <1>3, <1>5, <1>6, <2>1 DEF Holds
    <3> QED
      BY <1>1, <3>1
  <2>2. CASE h # g
    BY <1>2, <1>5, <1>6, <2>2 DEF Holds
  <2> QED
    BY <2>1, <2>2
<1> QED
  BY <1>2, <1>6, SilentKept, Zenon

LEMMA StepSpeaks ==
  ASSUME Base, Turns, NeverSilent, [Next]_vars
  PROVE  NeverSilent'
<1>1. Base'
  BY StepBase
<1>2. ASSUME NEW c \in Calls, \/ LeaveGroup(c) \/ SetGroup(c) \/ SetOption(c) \/ Forget(c) \/ Seen(c)
                              \/ SaveOpen(c) \/ SaveWrite(c) \/ SaveRename(c) \/ ReloadFails(c)
                              \/ ReadSettings(c) \/ CallFails(c)
                              \/ StartProgram(c) \/ \E o \in load.ops : Begin(c, o)
      PROVE  NeverSilent'
  <2>1. UNCHANGED <<gen, stop, signedOut>>
    BY <1>2 DEF LeaveGroup, SetGroup, SetOption, Forget, Seen, SaveOpen, SaveWrite, SaveRename,
                ReloadFails, ReadSettings, CallFails, StartProgram, Begin, running
  <2> QED
    BY <2>1, SameSilent
<1>3. ASSUME NEW c \in Calls, ApplySettings(c) \/ StopGeneration(c) \/ LoadSettings(c) \/ Build(c)
      PROVE  NeverSilent'
  BY <1>1, <1>3, ApplySpeaks, RestartSpeaks
<1>4. ASSUME NEW g \in DOMAIN gen, (Run(g) \/ ClosedByServer(g)) \/ Lost(g) PROVE NeverSilent'
  BY <1>4, RunSpeaks
<1>5. CASE Crash
  BY <1>1, <1>5, NoneHeld DEF Crash
<1>6. CASE (Turn \/ \E t \in Tokens : Revoke(t)) \/ UNCHANGED vars
  <2>1. UNCHANGED <<gen, stop, signedOut>>
    BY <1>6, TurnFacts DEF running, vars
  <2> QED
    BY <2>1, SameSilent
<1> QED
  BY <1>2, <1>3, <1>4, <1>5, <1>6, NextCases

\* As long as one window call runs at a time (and for any number of commands of
\* the Linux CLI), the client of the generation that the program holds is trying
\* or connected, or the user is shown that the server refused the session: no
\* error, lost connection, option or restart ends it silently (Client.Run,
\* OnUnauthorized, Restart).
THEOREM NeverSilentHolds == Spec /\ OneCall => []NeverSilent
<1>1. Init /\ OneCall => Base /\ Turns /\ NeverSilent
  <2>1. Init => NeverSilent
    BY DEF Init, NeverSilent
  <2> QED
    BY <2>1, InitBase, InitTurns
<1>2. Base /\ Turns /\ NeverSilent /\ [Next]_vars => (Base /\ Turns /\ NeverSilent)'
  BY StepBase, StepTurns, StepSpeaks
<1> QED
  BY <1>1, <1>2, PTL DEF Spec
=============================================================================
