----------------------------- MODULE SavePayload -----------------------------
(***************************************************************************)
(* What Save, SaveTo, SaveString and GenerateTemplate encode: the document *)
(* made from one snapshot under the save options (cfg) and the policy read *)
(* from the registry under its lock (registry_save.go).                    *)
(*                                                                         *)
(* cfg:     only (the WithSaveOnly path, <<>> without one),                *)
(*          includeDefaults, includeSecrets.                               *)
(* policy:  secrets and aliases (the marks), redactor (whether there is    *)
(*          one), unscopedEnv (names of environment sources that report    *)
(*          every variable), consulted (the paths a bind has read).        *)
(* A document is held by its leaves, as a map value is.                    *)
(***************************************************************************)
EXTENDS Resolution

Redacted == [kind |-> "redacted"]       \* what the redactor made of a value

\* Mutant: the marks of parents and aliases are not consulted.
isSecretItself(k, policy) == k \in policy.secrets

\* savePolicyLocked's matcher, asked of one key.
isSecret(k, policy) == IsSecretKey(policy.secrets, policy.aliases, k)

\* The listed keys the filters let through, before shadowing.
saveCandidates(s, cfg, policy) ==
    {k \in Canonical(s, s.listed) :
        /\ IsPrefix(cfg.only, k)
        /\ cfg.includeDefaults \/ s.entries[k].srcs # <<srcDefault>>
        /\ s.entries[k].srcs[1] \in policy.unscopedEnv => k \in policy.consulted}

\* Mutant: a key that loses to a related one is written all the same.
saveKeptShadowed(s, K, cfg, policy) ==
    {k \in K : isSecret(k, policy) => cfg.includeSecrets \/ policy.redactor}

\* Mutant: a null is taken for no value.
saveKeptNoNulls(s, K, cfg, policy) ==
    {k \in K \ shadowedKeys(s, K) : k # cfg.only /\ s.entries[k].val # Null}

\* Without a redactor a secret is left out; the key WithSaveOnly names has
\* no place in a document of the keys below it.
saveKept(s, K, cfg, policy) ==
    {k \in K \ shadowedKeys(s, K) :
        /\ isSecret(k, policy) => cfg.includeSecrets \/ policy.redactor
        /\ k # cfg.only}

redactSecrets(s, cfg, policy) ==
    [s EXCEPT !.entries =
        [k \in DOMAIN @ |-> IF isSecret(k, policy) /\ ~cfg.includeSecrets
                            THEN [@[k] EXCEPT !.val = Redacted] ELSE @[k]]]

stripPrefix(tree, only) == IF only = <<>> THEN tree ELSE Under(tree, only)

payloadOf(s, K, cfg, policy) ==
    stripPrefix(TreeOf(redactSecrets(s, cfg, policy), saveKept(s, K, cfg, policy)), cfg.only)

buildSavePayload(s, cfg, policy) == payloadOf(s, saveCandidates(s, cfg, policy), cfg, policy)

\* GenerateTemplate: defaults are included whatever the options say first.
generateTemplate(s, cfg, policy) ==
    buildSavePayload(s, [cfg EXCEPT !.includeDefaults = TRUE], policy)

\* The canonical paths, limited by WithSaveOnly alone.
TemplateKeys(s, only) == {k \in Canonical(s, s.listed) : IsPrefix(only, k)}
=============================================================================
