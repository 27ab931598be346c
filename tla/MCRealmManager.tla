---------------------------- MODULE MCRealmManager ----------------------------
EXTENDS RealmManager, TLC

CONSTANTS a, b, x, y, s, t

\* Whatever config.json says, one host for two realms included.
AnyConfig == [Names -> Cfgs \cup {None}]
=============================================================================
