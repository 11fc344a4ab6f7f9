CONSTANTS
    Simulated = {"app-redis-01", "app-worker-01", "fileserver-01", "mail-relay-01", "db-postgres-01", "db-postgres-02", "payment-api", "win-dc-01", "web-frontend-01", "backup-01"}
    Step = 2
    Oldest = 22
    MaxToggles = 2
    MaxTears = 1
SPECIFICATION FairSpec
INVARIANTS StoryTold Sane TornMild
PROPERTIES NoRelief AlertComes
