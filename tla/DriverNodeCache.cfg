\* What the comment on the calibration cache promises; the code never clears it after an upload.
SPECIFICATION Spec
INVARIANT CacheSpentByUpload
