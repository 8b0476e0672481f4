----------------------------- MODULE MCServices -----------------------------
(* The units of the fleet's services for TLC.  They share no state; part is *)
(* the one that this behaviour runs.                                        *)
EXTENDS NarProxy, NtfyWebhook, WaitForHost, GarageBootstrap, BackupShip, ImageInit

VARIABLE part

MCStore == <<"loki", "attic">>

servicesVars ==
  <<part, proxyVars, webhookVars, bootVars, bootstrapVars, shipVars, imageVars>>

\* The other parts stay in one of their initial states.
ServicesInit ==
  /\ part \in {"proxy", "ntfy", "boot", "bootstrap", "ship", "image"}
  /\ ProxyInit /\ WebhookInit /\ BootInit /\ BootstrapInit /\ ShipInit /\ ImageStart
  /\ part # "bootstrap" => ~layout
  /\ part # "ship" => host = "gitlab"
  /\ part # "image" => imageSize = 1

Only(p) ==
  /\ part = p /\ UNCHANGED part
  /\ p # "proxy" => UNCHANGED proxyVars
  /\ p # "ntfy" => UNCHANGED webhookVars
  /\ p # "boot" => UNCHANGED bootVars
  /\ p # "bootstrap" => UNCHANGED bootstrapVars
  /\ p # "ship" => UNCHANGED shipVars
  /\ p # "image" => UNCHANGED imageVars

ServicesNext ==
  \/ Only("proxy") /\ ProxyNext
  \/ Only("ntfy") /\ WebhookNext
  \/ Only("boot") /\ BootNext
  \/ Only("bootstrap") /\ BootstrapNext
  \/ Only("ship") /\ ShipNext
  \/ Only("image") /\ ImageNext

\* The fairness of each part's own specification, for the part that runs.
ServicesSpec ==
  /\ ServicesInit /\ [][ServicesNext]_servicesVars
  /\ WF_servicesVars(Only("proxy") /\ Cancel)
  /\ WF_servicesVars(Only("ntfy") /\ Notify) /\ WF_servicesVars(Only("ntfy") /\ GiveUp)
  /\ WF_servicesVars(Only("ntfy") /\ (Post \/ PostFails \/ PostTimesOut))
  /\ SF_servicesVars(Only("ntfy") /\ Post)
  /\ \A t \in Database : WF_servicesVars(Only("boot") /\ DatabaseUp(t))
  /\ \A s \in Service :
       /\ WF_servicesVars(Only("boot") /\ Boot(s))
       /\ WF_servicesVars(Only("boot") /\ StartJob(s))
  /\ WF_servicesVars(Only("boot") /\ Respawn)
  /\ \A w \in Wait : WF_servicesVars(Only("boot") /\ (Reachable(w) \/ Timeout(w)))
  /\ WF_servicesVars(Only("bootstrap") /\ UnitStep)
  /\ WF_servicesVars(Only("bootstrap") /\ ApplyLayout)

=============================================================================
