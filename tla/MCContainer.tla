---------------------------- MODULE MCContainer ----------------------------
\* Two admins' names and .env files that lack nothing or one thing.
EXTENDS Container

MCEnvironments ==
    [username : Usernames, lacks : {{}} \cup {{p} : p \in Parts}]
=============================================================================
