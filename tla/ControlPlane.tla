---------------------------- MODULE ControlPlane ----------------------------
(***************************************************************************)
(* The certificate of a control plane: what it finds on its disk when it   *)
(* starts, what it makes anew, and the agents that were given the          *)
(* fingerprint of the first certificate it served.  The process may die at *)
(* any step, and a write may fail.                                         *)
(***************************************************************************)
EXTENDS Naturals

CONSTANT MaxLives  \* a bound on the starts of the control plane

ASSUME ControlPlaneAssumption == MaxLives \in Nat

VARIABLES
    stage,     \* where StartWithAutoTLS is
    life,      \* how often it has started: the key pairs are different in each
    certFile,  \* the key pair that a file holds a half of, or Torn
    keyFile,
    cert,      \* the key pair in memory
    pinned,    \* the fingerprints that have been logged, for agents to be given
    agent      \* whether an agent with the first of them is connected

certVars == <<certFile, keyFile, cert, pinned>>
planeVars == <<stage, life, certVars, agent>>

Torn == 0
Lives == 1 .. MaxLives

PlaneTypeOK ==
    /\ stage \in {"down", "load", "cert", "key", "ready", "up"}
    /\ life \in 0 .. MaxLives
    /\ {certFile, keyFile, cert} \subseteq 0 .. MaxLives
    /\ pinned \subseteq Lives
    /\ agent \in {"none", "lost", "connected"}
    /\ agent = "connected" => stage = "up" /\ cert \in pinned

PlaneInit ==
    /\ stage = "down" /\ life = 0
    /\ certFile = Torn /\ keyFile = Torn /\ cert = Torn /\ pinned = {}
    /\ agent = "none"
-----------------------------------------------------------------------------
(***************************************************************************)
(* LoadOrGenerateCert and StartWithAutoTLS.                                *)
(***************************************************************************)

NewServer ==
    /\ stage = "down" /\ life < MaxLives
    /\ stage' = "load" /\ life' = life + 1 /\ cert' = Torn
    /\ UNCHANGED <<certFile, keyFile, pinned, agent>>

\* Both files, and halves of one pair.
LoadCert ==
    /\ stage = "load" /\ certFile # Torn /\ certFile = keyFile
    /\ cert' = certFile /\ stage' = "ready"
    /\ UNCHANGED <<life, certFile, keyFile, pinned, agent>>

\* Mutant: the certificate is made anew at every start.
GenerateAlways ==
    /\ stage = "load"
    /\ cert' = life /\ stage' = "cert"
    /\ UNCHANGED <<life, certFile, keyFile, pinned, agent>>

Generate ==
    /\ stage = "load" /\ (certFile = Torn \/ certFile # keyFile)
    /\ cert' = life /\ stage' = "cert"
    /\ UNCHANGED <<life, certFile, keyFile, pinned, agent>>

\* Each file is truncated, then written; a write may fail, and the program exits.
WriteCert ==
    /\ stage = "cert"
    /\ \/ certFile' = Torn /\ stage' \in {"cert", "down"}
       \/ certFile' = cert /\ stage' = "key"
    /\ UNCHANGED <<life, keyFile, cert, pinned, agent>>

WriteKey ==
    /\ stage = "key"
    /\ \/ keyFile' = Torn /\ stage' \in {"key", "down"}
       \/ keyFile' = cert /\ stage' = "ready"
    /\ UNCHANGED <<life, certFile, cert, pinned, agent>>

\* Mutant: the files are written after the server has begun to listen.
ServeFirst ==
    /\ stage \in {"cert", "key", "ready"}
    /\ stage' = "up" /\ pinned' = pinned \cup {cert}
    /\ UNCHANGED <<life, certFile, keyFile, cert, agent>>

\* The fingerprint is logged, and the server listens.
Serve ==
    /\ stage = "ready"
    /\ stage' = "up" /\ pinned' = pinned \cup {cert}
    /\ UNCHANGED <<life, certFile, keyFile, cert, agent>>

\* Mutant: the agent does not notice that its connection has gone.
CrashUnnoticed ==
    /\ stage # "down"
    /\ stage' = "down"
    /\ UNCHANGED <<life, certVars, agent>>

\* The process dies, and with it the agent's connection.
PlaneCrash ==
    /\ stage # "down"
    /\ stage' = "down"
    /\ agent' = IF agent = "connected" THEN "lost" ELSE agent
    /\ UNCHANGED <<life, certVars>>

\* PinnedTLSConfig: an agent was given the fingerprint of the first certificate that was
\* served, and accepts no other.
Fingerprint == CHOOSE p \in pinned : \A q \in pinned : p <= q
AgentConnects ==
    /\ stage = "up" /\ agent # "connected" /\ cert = Fingerprint
    /\ agent' = "connected"
    /\ UNCHANGED <<stage, life, certVars>>
-----------------------------------------------------------------------------
StartStep == LoadCert \/ Generate \/ WriteCert \/ WriteKey \/ Serve

PlaneNext == NewServer \/ StartStep \/ PlaneCrash \/ AgentConnects

\* The agent dials again and again; a control plane that starts goes on.
Fairness == WF_planeVars(StartStep) /\ WF_planeVars(AgentConnects)

PlaneSpec == PlaneInit /\ [][PlaneNext]_planeVars /\ Fairness
-----------------------------------------------------------------------------
\* "So the fingerprint stays stable across restarts": whenever the control plane dies,
\* every life of it that gets to serve has the fingerprint of the first.
FingerprintStable == \A p, q \in pinned : p = q

\* An agent that was given the fingerprint comes back after every restart.
AgentsComeBack == (stage = "up" /\ agent # "connected") ~> (agent = "connected" \/ stage # "up")
=============================================================================
